---------------------------- MODULE Spec2Model ----------------------------
(***************************************************************************)
(* A model of the score-to-event conversion of cormal/etude:               *)
(*   - the MusicXML path of src/mxl2midi.js (parseXMLString, stepToMidi,   *)
(*     convertToMIDI),                                                     *)
(*   - the Standard MIDI File path of src/unnamed/part_000 (parseMidiFile  *)
(*     with its readers readStr, read16, read32, readVar),                 *)
(*   - the .mxl path of src/mxl2midi.js (parseZIP, extractMXL, parseFile), *)
(*   - the handlers of src/unnamed/part_000 around them: the file loads    *)
(*     with their awaits, the delayed render, playback, seeking and        *)
(*     learning mode.                                                      *)
(*                                                                         *)
(* Times.  The JavaScript code computes times as floating-point            *)
(* milliseconds.  The model keeps every time as an integer number of       *)
(* MICROSECONDS (1000 per millisecond), and the inputs are drawn so that   *)
(* every division of the code is exact.  "500 ms" of the code is 500000    *)
(* here; rounding to two decimals of a millisecond is rounding to a        *)
(* multiple of 10 microseconds.                                            *)
(***************************************************************************)
EXTENDS Integers, Sequences, FiniteSets, TLC

VARIABLES
    pc,             \* position of the handler that is running
    hdr,            \* score path: the <sound>/<attributes> content of the document
    doc,            \* score path: the <part>s, each a sequence of <measure>s
    scoreData,      \* score path: the result of parseXMLString
    midiEvents,     \* the event list (global of part_000:24, result of convertToMIDI)
    notePairs,      \* the note table
    totalDuration,  \* time of the last event
    smf,            \* SMF path: the file, as its division and its tracks of events
    buffer,         \* SMF path: the bytes of the file (buffer / data of parseMidiFile)
    tempoMap,       \* SMF path: the tempoMap of parseMidiFile when it ends
    vlq,            \* readVar on its own: the number written, where, and what was read
    logged,         \* the messages the conversion paths passed to log(), in order
    zip,            \* .mxl path: the file, as the chunks it is written from
    pako,           \* .mxl path: what became of the loading of the inflater
    files,          \* .mxl path: the members parseZIP returned
    result,         \* .mxl path: how the promise of parseFile settled
    scanOffset,     \* parseZIP turn by turn: its local offset
    now,            \* the application: what performance.now() returns
    playStartTime,  \* the global startTime of part_000:8
    isPlaying,      \* global of part_000:7
    nextEventIndex, \* global of part_000:8
    currentTimeOffset,  \* global of part_000:8
    firstNoteOffset,    \* global of part_000:25
    learningMode,       \* global of part_000:9
    currentTargetNotes, \* global of part_000:9
    currentXMLString,   \* global of part_000:19: the name of the file the text is of
    isRendering,    \* global of part_000:20
    osmdLoaded,     \* whether the OpenSheetMusicDisplay library is defined
    tasks,          \* the awaits and timers of the handlers that are pending
    dispatched,     \* the messages playLoop passed to handleMidi since the last
                    \* clearCurrentFile or seek, each with the currentTimeOffset
    requested       \* the file loads that were requested, in order

scoreVars == <<hdr, doc, scoreData>>

outVars == <<midiEvents, notePairs, totalDuration>>

midiVars == <<smf, buffer, tempoMap>>

zipVars == <<zip, pako, files, result>>

appVars == <<scanOffset, now, playStartTime, isPlaying, nextEventIndex, currentTimeOffset,
             firstNoteOffset, learningMode, currentTargetNotes, currentXMLString,
             isRendering, osmdLoaded, tasks, dispatched, requested>>

vars == <<pc, hdr, doc, scoreData, midiEvents, notePairs, totalDuration,
          smf, buffer, tempoMap, vlq, logged, zip, pako, files, result,
         scanOffset, now, playStartTime, isPlaying, nextEventIndex, currentTimeOffset,
         firstNoteOffset, learningMode, currentTargetNotes, currentXMLString,
         isRendering, osmdLoaded, tasks, dispatched, requested>>

---------------------------------------------------------------------------
(* Bounds of the model.                                                    *)

\* measures of a document, those of all its parts together (every part has at
\* least one, so this bounds the parts too)
MaxMeasures == 2
\* child elements of all measures of a document together
MaxChildren == 3
\* tracks of a Standard MIDI File
MaxTracks == 2
\* events of all tracks of a file together (the end-of-track events not counted)
MaxEvents == 3
\* how far around 0, 2^7, 2^14, 2^21 and 2^28 the numbers given to readVar go
VlqSpread == 8

\* the most chunks (members and runs of other bytes) of an .mxl file
MaxChunks == 3

\* members that the turn-by-turn scan of parseZIP reads before it is cut off
MaxScanned == 4

\* note messages of a file of the SMF path that holds note messages only
MaxNotes == 4

\* the most notes of a measure written from PitchChildren
MaxPitchNotes == 2

\* the octaves at the two ends of the pitch range of the model
MinOctave == 0 - 2

MaxOctave == 9

---------------------------------------------------------------------------
(* Small helpers on sequences.                                             *)

Range(s) == {s[i] : i \in DOMAIN s}

Last(s) == s[Len(s)]

Max2(a, b) == IF a >= b THEN a ELSE b

\* a sequence of n copies of x
RECURSIVE Repeat(_, _)
Repeat(x, n) == IF n <= 0 THEN <<>> ELSE <<x>> \o Repeat(x, n - 1)

---------------------------------------------------------------------------
(* The input of the score path: the child elements of a <measure>.  Every  *)
(* element is a record of one shape; a field an element does not have      *)
(* holds a neutral value and is never read for that element.               *)
(*   tag          child.tagName                                            *)
(*   pitch        the note has a <pitch> child                             *)
(*   rest         the note has a <rest> child                              *)
(*   chord        the note has a <chord> child                             *)
(*   hasDuration  the element has a <duration> child                       *)
(*   duration     parseInt of its text                                     *)
(*   hasStep      the <pitch> of the note has a <step> child                *)

PitchedNote(step, octave, alter, duration, chord) ==
    [tag |-> "note", pitch |-> TRUE, rest |-> FALSE, chord |-> chord,
     hasDuration |-> TRUE, duration |-> duration,
     hasStep |-> TRUE, step |-> step, octave |-> octave, alter |-> alter]

\* a note whose <pitch> has no <step> child
PitchWithoutStep(octave, duration) ==
    [tag |-> "note", pitch |-> TRUE, rest |-> FALSE, chord |-> FALSE,
     hasDuration |-> TRUE, duration |-> duration,
     hasStep |-> FALSE, step |-> "", octave |-> octave, alter |-> 0]

RestNote(duration) ==
    [tag |-> "note", pitch |-> FALSE, rest |-> TRUE, chord |-> FALSE,
     hasDuration |-> TRUE, duration |-> duration,
     hasStep |-> FALSE, step |-> "", octave |-> 0, alter |-> 0]

BackupElem(duration) ==
    [tag |-> "backup", pitch |-> FALSE, rest |-> FALSE, chord |-> FALSE,
     hasDuration |-> TRUE, duration |-> duration,
     hasStep |-> FALSE, step |-> "", octave |-> 0, alter |-> 0]

ForwardElem(duration) ==
    [tag |-> "forward", pitch |-> FALSE, rest |-> FALSE, chord |-> FALSE,
     hasDuration |-> TRUE, duration |-> duration,
     hasStep |-> FALSE, step |-> "", octave |-> 0, alter |-> 0]

\* any other child (<attributes>, <direction>, <barline>, ...)
OtherElem ==
    [tag |-> "direction", pitch |-> FALSE, rest |-> FALSE, chord |-> FALSE,
     hasDuration |-> FALSE, duration |-> 0,
     hasStep |-> FALSE, step |-> "", octave |-> 0, alter |-> 0]

\* the child elements a measure of the model is built from
Children ==
    { PitchedNote("C", 4, 0, 1, FALSE),
      PitchedNote("E", 4, 0, 1, FALSE),
      PitchedNote("C", 4, 0, 2, TRUE),
      RestNote(1),
      BackupElem(1),
      ForwardElem(1),
      OtherElem }

(* The document-wide content read before the notes: the tempo attribute of *)
(* the first <sound tempo=..> (hasSound, bpm) and divisions, beats and     *)
(* beat-type of the first <measure><attributes>.                           *)
Headers ==
    { [hasSound |-> TRUE,  bpm |-> 120, divisions |-> 1,      beats |-> 4, beatType |-> 4],
      [hasSound |-> FALSE, bpm |-> 0,   divisions |-> 125000, beats |-> 6, beatType |-> 8] }

---------------------------------------------------------------------------
(* parseXMLString (src/mxl2midi.js:335-485).                               *)

steps == [C |-> 0, D |-> 2, E |-> 4, F |-> 5, G |-> 7, A |-> 9, B |-> 11]

stepToMidi(step, octave, alter) == (octave + 1) * 12 + steps[step] + alter

\* currentTime after a pitched note has been pushed
AdvanceAfterNoteChordToo(chord, hasDuration, noteDuration, currentTime) ==
    IF hasDuration THEN currentTime + noteDuration ELSE currentTime

AdvanceAfterNote(chord, hasDuration, noteDuration, currentTime) ==
    IF ~chord /\ hasDuration THEN currentTime + noteDuration ELSE currentTime

\* the noteData / restData object pushed to measures[mIdx].notes; restData has
\* no step, octave, alter, midiNote and isChord: they are 0 / "" / FALSE here
\* (restData.midiNote is undefined in the code, which is falsy like 0)
NoteData(child, noteDuration, currentTime, partIdx) ==
    [step |-> child.step, octave |-> child.octave, alter |-> child.alter,
     duration |-> noteDuration, time |-> currentTime,
     midiNote |-> stepToMidi(child.step, child.octave, child.alter),
     isChord |-> child.chord, isRest |-> FALSE, part |-> partIdx]

RestData(noteDuration, currentTime, partIdx) ==
    [step |-> "", octave |-> 0, alter |-> 0,
     duration |-> noteDuration, time |-> currentTime,
     midiNote |-> 0,
     isChord |-> FALSE, isRest |-> TRUE, part |-> partIdx]

\* the body of children.forEach: st = [currentTime, notes], notes being
\* scoreData.measures[mIdx].notes
ParseChild(child, st, partIdx) ==
    IF child.tag = "backup"
    THEN [st EXCEPT !.currentTime =
              IF child.hasDuration THEN @ - child.duration ELSE @]
    ELSE IF child.tag = "forward"
    THEN [st EXCEPT !.currentTime =
              IF child.hasDuration THEN @ + child.duration ELSE @]
    ELSE IF child.tag = "note"
    THEN LET noteDuration == IF child.hasDuration THEN child.duration ELSE 0
         IN  IF child.pitch
             THEN [currentTime |-> AdvanceAfterNote(child.chord, child.hasDuration,
                                                    noteDuration, st.currentTime),
                   notes |-> Append(st.notes,
                                    NoteData(child, noteDuration, st.currentTime, partIdx))]
             ELSE IF child.rest /\ child.hasDuration
             THEN [currentTime |-> st.currentTime + noteDuration,
                   notes |-> Append(st.notes,
                                    RestData(noteDuration, st.currentTime, partIdx))]
             ELSE st
    ELSE st

RECURSIVE ParseChildren(_, _, _, _)
ParseChildren(children, i, st, partIdx) ==
    IF i > Len(children) THEN st
    ELSE ParseChildren(children, i + 1, ParseChild(children[i], st, partIdx), partIdx)

\* measures.forEach((measure, mIdx) => ...) of one part: currentTime starts at 0
\* in every measure
RECURSIVE ParseMeasures(_, _, _, _)
ParseMeasures(part, m, partIdx, measures) ==
    IF m > Len(part) THEN measures
    ELSE LET st == ParseChildren(part[m], 1,
                                 [currentTime |-> 0, notes |-> measures[m].notes],
                                 partIdx)
         IN  ParseMeasures(part, m + 1, partIdx,
                           [measures EXCEPT ![m].notes = st.notes])

\* parts.forEach((part, partIdx) => ...)
RECURSIVE ParseParts(_, _, _)
ParseParts(parts, p, measures) ==
    IF p > Len(parts) THEN measures
    ELSE ParseParts(parts, p + 1, ParseMeasures(parts[p], 1, p - 1, measures))

RECURSIVE MaxMeasureCount(_, _)
MaxMeasureCount(parts, p) ==
    IF p > Len(parts) THEN 0
    ELSE Max2(Len(parts[p]), MaxMeasureCount(parts, p + 1))

\* scoreData.measures[i] = { number, notes: [], width }
InitMeasures(parts) == Repeat([notes |-> <<>>], MaxMeasureCount(parts, 1))

\* pitch.querySelector('step').textContent of a <pitch> without a <step> reads a
\* property of null: a TypeError leaves parseXMLString at that note
parseXMLStringThrows(parts) ==
    \E p \in DOMAIN parts : \E m \in DOMAIN parts[p] : \E c \in DOMAIN parts[p][m] :
        LET child == parts[p][m][c]
        IN  child.tag = "note" /\ child.pitch /\ ~child.hasStep

parseXMLString(h, parts) ==
    [measures  |-> ParseParts(parts, 1, InitMeasures(parts)),
     divisions |-> h.divisions,
     beats     |-> h.beats,
     beatType  |-> h.beatType,
     tempo     |-> IF h.hasSound THEN 60000000 \div h.bpm ELSE 500000]

---------------------------------------------------------------------------
(* convertToMIDI (src/mxl2midi.js:505-606).                                *)

\* tempoMs / divisions, in microseconds
msPerDivision(sd) == sd.tempo \div sd.divisions

divisionsPerMeasure(sd) == (sd.beats * sd.divisions * 4) \div sd.beatType

msPerMeasure(sd) == divisionsPerMeasure(sd) * msPerDivision(sd)

\* the object pushed to allNotes for one note of measure measureIdx (0-based)
ResolveNoteNoMeasureStart(sd, measureIdx, note) ==
    LET startTime == note.time * msPerDivision(sd)
    IN  [midiNote |-> note.midiNote,
         startTime |-> startTime,
         endTime |-> startTime + note.duration * msPerDivision(sd),
         duration |-> note.duration]

ResolveNote(sd, measureIdx, note) ==
    LET startTime == measureIdx * msPerMeasure(sd) + note.time * msPerDivision(sd)
    IN  [midiNote |-> note.midiNote,
         startTime |-> startTime,
         endTime |-> startTime + note.duration * msPerDivision(sd),
         duration |-> note.duration]

RECURSIVE ResolveNotes(_, _, _, _)
ResolveNotes(sd, measureIdx, notes, i) ==
    IF i > Len(notes) THEN <<>>
    ELSE (IF ~notes[i].isRest /\ notes[i].midiNote # 0
          THEN <<ResolveNote(sd, measureIdx, notes[i])>>
          ELSE <<>>)
         \o ResolveNotes(sd, measureIdx, notes, i + 1)

RECURSIVE AllNotesFrom(_, _)
AllNotesFrom(sd, m) ==
    IF m > Len(sd.measures) THEN <<>>
    ELSE ResolveNotes(sd, m - 1, sd.measures[m].notes, 1) \o AllNotesFrom(sd, m + 1)

allNotes(sd) == AllNotesFrom(sd, 1)

\* Math.round(startTime * 100) / 100: the nearest multiple of 10 microseconds,
\* a half rounding up (Math.round rounds towards +infinity)
timeKey(startTime) == ((startTime + 5) \div 10) * 10

\* index of the entry of a Map (a sequence of [key, value], in insertion order)
\* with the given key, 0 when there is none
MapIndex(map, key) ==
    IF \E i \in DOMAIN map : map[i].key = key
    THEN CHOOSE i \in DOMAIN map : map[i].key = key
    ELSE 0

\* whether the note replaces the one kept under the same key
ReplacesOnTie(note, existing) == note.duration >= existing.duration

Replaces(note, existing) == note.duration > existing.duration

\* notesAtTime after one note: set(midiKey, note) when absent or when longer;
\* Map.set on an existing key keeps the key's place
PutNote(notesAtTime, note) ==
    LET j == MapIndex(notesAtTime, note.midiNote)
    IN  IF j = 0
        THEN Append(notesAtTime, [key |-> note.midiNote, value |-> note])
        ELSE IF Replaces(note, notesAtTime[j].value)
        THEN [notesAtTime EXCEPT ![j].value = note]
        ELSE notesAtTime

\* the body of allNotes.forEach
DedupStepNewestFirst(notesByTime, note) ==
    LET k == timeKey(note.startTime)
        i == MapIndex(notesByTime, k)
    IN  IF i = 0
        THEN <<[key |-> k, value |-> PutNote(<<>>, note)]>> \o notesByTime
        ELSE [notesByTime EXCEPT ![i].value = PutNote(@, note)]

DedupStep(notesByTime, note) ==
    LET k == timeKey(note.startTime)
        i == MapIndex(notesByTime, k)
    IN  IF i = 0
        THEN Append(notesByTime, [key |-> k, value |-> PutNote(<<>>, note)])
        ELSE [notesByTime EXCEPT ![i].value = PutNote(@, note)]

RECURSIVE Dedup(_, _, _)
Dedup(notes, i, notesByTime) ==
    IF i > Len(notes) THEN notesByTime
    ELSE Dedup(notes, i + 1, DedupStep(notesByTime, notes[i]))

\* the notes of notesByTime in the order of its two nested forEach
RECURSIVE InnerValues(_, _)
InnerValues(notesAtTime, j) ==
    IF j > Len(notesAtTime) THEN <<>>
    ELSE <<notesAtTime[j].value>> \o InnerValues(notesAtTime, j + 1)

RECURSIVE Survivors(_, _)
Survivors(notesByTime, i) ==
    IF i > Len(notesByTime) THEN <<>>
    ELSE InnerValues(notesByTime[i].value, 1) \o Survivors(notesByTime, i + 1)

NoteOn(note) == [time |-> note.startTime, data |-> <<144, note.midiNote, 100>>]

NoteOff(note) == [time |-> note.endTime, data |-> <<128, note.midiNote, 0>>]

NotePair(note) == [note |-> note.midiNote, start |-> note.startTime, end |-> note.endTime]

\* what is pushed to midiEvents for one surviving note
EmitOnOnly(note) == <<NoteOn(note)>>

Emit(note) == <<NoteOn(note), NoteOff(note)>>

RECURSIVE GenerateEvents(_, _)
GenerateEvents(notes, i) ==
    IF i > Len(notes) THEN <<>>
    ELSE Emit(notes[i]) \o GenerateEvents(notes, i + 1)

RECURSIVE GeneratePairs(_, _)
GeneratePairs(notes, i) ==
    IF i > Len(notes) THEN <<>>
    ELSE <<NotePair(notes[i])>> \o GeneratePairs(notes, i + 1)

\* Array.prototype.sort with (a, b) => a.time - b.time: a stable sort, here by
\* insertion after the last element that is not later
RECURSIVE InsertByTime(_, _)
InsertByTime(sorted, e) ==
    IF sorted = <<>> THEN <<e>>
    ELSE IF Last(sorted).time <= e.time THEN Append(sorted, e)
    ELSE Append(InsertByTime(SubSeq(sorted, 1, Len(sorted) - 1), e), Last(sorted))

RECURSIVE SortFrom(_, _, _)
SortFrom(events, i, sorted) ==
    IF i > Len(events) THEN sorted
    ELSE SortFrom(events, i + 1, InsertByTime(sorted, events[i]))

SortByTimeSkipped(events) == events

SortByTime(events) == SortFrom(events, 1, <<>>)

\* convertToMIDI from the de-duplication on, on the resolved notes
MergeNotes(notes) ==
    LET surviving == Survivors(Dedup(notes, 1, <<>>), 1)
        events    == SortByTime(GenerateEvents(surviving, 1))
    IN  [midiEvents    |-> events,
         notePairs     |-> GeneratePairs(surviving, 1),
         totalDuration |-> IF Len(events) > 0 THEN Last(events).time ELSE 0]

convertToMIDI(sd) == MergeNotes(allNotes(sd))

---------------------------------------------------------------------------
(* The input of the Standard MIDI File path.  A file is written from a     *)
(* list of tracks, each a list of events [delta, kind, note, vel, tempo]:  *)
(*   "on"     delta, 0x90, note, vel                                       *)
(*   "off"    delta, 0x80, note, vel                                       *)
(*   "tempo"  delta, 0xFF, 0x51, 0x03, the tempo in three bytes            *)
(* Every track ends with the end-of-track meta event 00 FF 2F 00.  The     *)
(* bytes are what parseMidiFile reads.                                     *)

TrackEvent(delta, kind, note, vel, tempo) ==
    [delta |-> delta, kind |-> kind, note |-> note, vel |-> vel, tempo |-> tempo,
     running |-> FALSE]

\* a note message written in running status: its status byte is left out
RunningEvent(delta, kind, note, vel) ==
    [delta |-> delta, kind |-> kind, note |-> note, vel |-> vel, tempo |-> 0,
     running |-> TRUE]

\* the note messages that may follow a note message of the same status
\* without a status byte of their own
RunningEvents(kind) ==
    { RunningEvent(d, kind, 64, IF kind = "on" THEN 100 ELSE 0) : d \in {0, 480} }

\* the events a track of the model is written from
TrackEvents ==
    { TrackEvent(d, "on", 60, 100, 0)    : d \in {0, 480} } \cup
    { TrackEvent(d, "off", 60, 0, 0)     : d \in {0, 480} } \cup
    { TrackEvent(d, "tempo", 0, 0, 250000) : d \in {0, 480} } \cup
    { TrackEvent(d, "tempo", 0, 0, 500000) : d \in {0, 480} }

\* ticks per quarter note of the header
Divisions == {480, 960}

\* the standard MIDI variable-length quantity of n: 7 bits per byte, most
\* significant group first, the high bit set on every byte but the last
RECURSIVE VlqGroups(_)
VlqGroups(n) ==
    IF n < 128 THEN <<n>> ELSE VlqGroups(n \div 128) \o <<n % 128>>

EncodeVar(n) ==
    LET groups == VlqGroups(n)
    IN  [i \in 1..Len(groups) |->
            IF i < Len(groups) THEN groups[i] + 128 ELSE groups[i]]

Bytes16(n) == <<(n \div 256) % 256, n % 256>>

Bytes24(n) == <<(n \div 65536) % 256, (n \div 256) % 256, n % 256>>

Bytes32(n) == <<(n \div 16777216) % 256, (n \div 65536) % 256, (n \div 256) % 256, n % 256>>

EncodeEvent(ev) ==
    EncodeVar(ev.delta) \o
    (IF ev.running THEN <<ev.note, ev.vel>>
     ELSE IF ev.kind = "on" THEN <<144, ev.note, ev.vel>>
     ELSE IF ev.kind = "off" THEN <<128, ev.note, ev.vel>>
     ELSE IF ev.kind = "aftertouch" THEN <<160, ev.note, ev.vel>>
     ELSE <<255, 81, 3>> \o Bytes24(ev.tempo))

RECURSIVE EncodeEvents(_, _)
EncodeEvents(events, i) ==
    IF i > Len(events) THEN <<>>
    ELSE EncodeEvent(events[i]) \o EncodeEvents(events, i + 1)

EncodeTrack(events) ==
    LET body == EncodeEvents(events, 1) \o <<0, 255, 47, 0>>
    IN  <<77, 84, 114, 107>> \o Bytes32(Len(body)) \o body

RECURSIVE EncodeTracks(_, _)
EncodeTracks(tracks, i) ==
    IF i > Len(tracks) THEN <<>>
    ELSE EncodeTrack(tracks[i]) \o EncodeTracks(tracks, i + 1)

EncodeFile(file) ==
    file.magic \o Bytes32(6) \o Bytes16(1) \o Bytes16(Len(file.tracks))
    \o Bytes16(file.division) \o EncodeTracks(file.tracks, 1)

---------------------------------------------------------------------------
(* parseMidiFile (src/unnamed/part_000:623-745).  pos is 0-based as in the *)
(* code; a byte read past the end of data is undefined, written -1 here,   *)
(* and counts as 0 in a bitwise operation, as in JavaScript.               *)

Undefined == 0 - 1

\* data[pos]
At(data, pos) == IF pos >= 0 /\ pos < Len(data) THEN data[pos + 1] ELSE Undefined

\* ToInt32 of an operand of a bitwise operator
ToInt32(b) == IF b = Undefined THEN 0 ELSE b

\* v << 8 on 32-bit integers: the shift of a reader of 8 bits a byte
Shl8(v) ==
    LET u == ToInt32(v) % 16777216
    IN  IF u >= 8388608 THEN (u - 16777216) * 256 ELSE u * 256

\* v << 7 on 32-bit integers
Shl7(v) ==
    LET u == ToInt32(v) % 33554432
    IN  IF u >= 16777216 THEN (u - 33554432) * 128 ELSE u * 128

\* readStr(len): the characters of data.slice(pos, pos + len), as their codes
readStr(data, pos, len) ==
    [i \in 1..(IF pos + len <= Len(data) THEN len ELSE Max2(Len(data) - pos, 0))
        |-> data[pos + i]]

\* read16() at pos
read16(data, pos) == ToInt32(At(data, pos)) * 256 + ToInt32(At(data, pos + 1))

\* read32() at pos: the first byte is shifted into the sign bit
read32(data, pos) ==
    (IF ToInt32(At(data, pos)) >= 128 THEN ToInt32(At(data, pos)) - 256 ELSE ToInt32(At(data, pos)))
        * 16777216
    + ToInt32(At(data, pos + 1)) * 65536 + ToInt32(At(data, pos + 2)) * 256
    + ToInt32(At(data, pos + 3))

\* readVar() at pos with v so far: the value and the position after it.  The
\* last group is OR-ed into the low 7 bits, which the shift left clear.
RECURSIVE readVarFrom(_, _, _)
readVarFrom(data, pos, v) ==
    LET b  == At(data, pos)
        v2 == Shl7(v) + (ToInt32(b) % 128)
    IN  IF ToInt32(b) < 128 THEN [v |-> v2, pos |-> pos + 1]
        ELSE readVarFrom(data, pos + 1, v2)

\* a reader that shifts by 8 where readVar shifts by 7
RECURSIVE readVarShift8From(_, _, _)
readVarShift8From(data, pos, v) ==
    LET b  == At(data, pos)
        v2 == Shl8(v) + (ToInt32(b) % 128)
    IN  IF ToInt32(b) < 128 THEN [v |-> v2, pos |-> pos + 1]
        ELSE readVarShift8From(data, pos + 1, v2)

readVarShift8(data, pos) == readVarShift8From(data, pos, 0)

readVar(data, pos) == readVarFrom(data, pos, 0)

\* s after if (!(s & 0x80)) { s = rs; pos--; } else { rs = s; }, b being the
\* byte in status position
StatusNotReused(running, b, rs) == b

Status(running, b, rs) == IF running THEN rs ELSE b

\* pos after it: the position of the first data byte
DataStart(running, statusPos) == IF running THEN statusPos ELSE statusPos + 1

\* one turn of while (pos < end): st = [pos, curTick, rs, midiEvents, tempoMap].
\* rs = null is written 0: null & 0xf0 is 0 and null === 0xFF is false.
DecodeEvent(data, st) ==
    LET delta   == readVar(data, st.pos)
        curTick == st.curTick + delta.v
        b       == At(data, delta.pos)
        running == ToInt32(b) < 128
        s       == Status(running, b, st.rs)
        pos     == DataStart(running, delta.pos)
        type    == (s \div 16) * 16
        st1     == [st EXCEPT !.curTick = curTick,
                              !.rs = IF running THEN @ ELSE b]
    IN  IF type = 128 \/ type = 144
        THEN [st1 EXCEPT !.pos = pos + 2,
                         !.midiEvents = Append(@, [tick |-> curTick,
                                                   data |-> <<s, At(data, pos),
                                                              At(data, pos + 1)>>])]
        ELSE IF s = 255
        THEN LET m  == At(data, pos)
                 ml == readVar(data, pos + 1)
             IN  [st1 EXCEPT !.pos = ml.pos + ml.v,
                             !.tempoMap =
                                 IF m = 81
                                 THEN Append(@, [tick |-> curTick, ms |-> 0,
                                                 tempo |-> ToInt32(At(data, ml.pos)) * 65536
                                                           + ToInt32(At(data, ml.pos + 1)) * 256
                                                           + ToInt32(At(data, ml.pos + 2))])
                                 ELSE @]
        ELSE IF type = 176 \/ type = 224
        THEN [st1 EXCEPT !.pos = pos + 2]
        ELSE IF type = 192 \/ type = 208
        THEN [st1 EXCEPT !.pos = pos + 1]
        ELSE [st1 EXCEPT !.pos = pos]

RECURSIVE DecodeTrack(_, _, _)
DecodeTrack(data, st, end) ==
    IF st.pos < end THEN DecodeTrack(data, DecodeEvent(data, st), end) ELSE st

\* for (let i = 0; i < tracks; i++): the chunk header, then the events
RECURSIVE DecodeTracks(_, _, _, _)
DecodeTracks(data, st, i, tracks) ==
    IF i >= tracks THEN st
    ELSE IF readStr(data, st.pos, 4) # <<77, 84, 114, 107>> THEN st
    ELSE LET len == read32(data, st.pos + 4)
             end == st.pos + 8 + len
         IN  DecodeTracks(data,
                          DecodeTrack(data, [st EXCEPT !.pos = st.pos + 8,
                                                       !.curTick = 0, !.rs = 0], end),
                          i + 1, tracks)

\* Array.prototype.sort with (a, b) => a.tick - b.tick: a stable sort
RECURSIVE InsertByTick(_, _)
InsertByTick(sorted, e) ==
    IF sorted = <<>> THEN <<e>>
    ELSE IF Last(sorted).tick <= e.tick THEN Append(sorted, e)
    ELSE Append(InsertByTick(SubSeq(sorted, 1, Len(sorted) - 1), e), Last(sorted))

RECURSIVE SortByTickFrom(_, _, _)
SortByTickFrom(entries, i, sorted) ==
    IF i > Len(entries) THEN sorted
    ELSE SortByTickFrom(entries, i + 1, InsertByTick(sorted, entries[i]))

SortEventsSkipped(events) == events

SortEvents(events) == SortByTickFrom(events, 1, <<>>)

SortTempoMapSkipped(map) == map

SortTempoMap(map) == SortByTickFrom(map, 1, <<>>)

\* what one tempoMap.forEach turn adds to curMs, in microseconds
TempoStepOwnTempo(tm, lastT, div) == ((tm.tick - lastT.tick) * tm.tempo) \div div

TempoStep(tm, lastT, div) == ((tm.tick - lastT.tick) * lastT.tempo) \div div

\* tempoMap.forEach(tm => { curMs += ...; tm.ms = curMs; lastT = tm; })
RECURSIVE Cumulate(_, _, _, _, _)
Cumulate(map, i, lastT, curMs, div) ==
    IF i > Len(map) THEN map
    ELSE LET ms == curMs + TempoStep(map[i], lastT, div)
         IN  Cumulate([map EXCEPT ![i].ms = ms], i + 1, map[i], ms, div)

\* for (let t of tempoMap) { if (t.tick <= ev.tick) activeTempo = t; else break; }
RECURSIVE ActiveTempo(_, _, _, _)
ActiveTempo(map, i, ev, activeTempo) ==
    IF i > Len(map) THEN activeTempo
    ELSE IF map[i].tick <= ev.tick THEN ActiveTempo(map, i + 1, ev, map[i])
    ELSE activeTempo

\* ev.time, in microseconds
EventTime(map, ev, div) ==
    LET activeTempo == ActiveTempo(map, 1, ev, map[1])
    IN  activeTempo.ms + ((ev.tick - activeTempo.tick) * activeTempo.tempo) \div div

TimedEvents(events, map, div) ==
    [i \in 1..Len(events) |->
        [tick |-> events[i].tick, data |-> events[i].data,
         time |-> EventTime(map, events[i], div)]]

\* the notePairs loop: tempNotes maps a sounding note to its start time
RECURSIVE BuildPairs(_, _, _, _)
BuildPairs(events, i, tempNotes, pairs) ==
    IF i > Len(events) THEN pairs
    ELSE LET status == events[i].data[1]
             note   == events[i].data[2]
             vel    == events[i].data[3]
             type   == (status \div 16) * 16
         IN  IF type = 144 /\ vel > 0
             THEN BuildPairs(events, i + 1,
                             (note :> events[i].time) @@ tempNotes, pairs)
             ELSE IF (type = 128 \/ (type = 144 /\ vel = 0))
                     /\ note \in DOMAIN tempNotes
             THEN BuildPairs(events, i + 1,
                             [n \in DOMAIN tempNotes \ {note} |-> tempNotes[n]],
                             Append(pairs, [note |-> note, start |-> tempNotes[note],
                                            end |-> events[i].time]))
             ELSE BuildPairs(events, i + 1, tempNotes, pairs)

\* parseMidiFile after its await, on the bytes of the file: the new values of
\* the globals it assigns and its local tempoMap.  With a wrong header it
\* returns after midiEvents = [] and leaves notePairs and totalDuration alone.
parseMidiFile(data, oldPairs, oldDuration) ==
    IF readStr(data, 0, 4) # <<77, 84, 104, 100>>
    THEN [midiEvents |-> <<>>, notePairs |-> oldPairs, totalDuration |-> oldDuration,
          tempoMap |-> <<[tick |-> 0, ms |-> 0, tempo |-> 500000]>>, div |-> 0]
    ELSE LET tracks  == read16(data, 10)
             div     == read16(data, 12)
             decoded == DecodeTracks(data,
                                     [pos |-> 14, curTick |-> 0, rs |-> 0,
                                      midiEvents |-> <<>>,
                                      tempoMap |-> <<[tick |-> 0, ms |-> 0,
                                                      tempo |-> 500000]>>],
                                     0, tracks)
             sorted  == SortTempoMap(decoded.tempoMap)
             map     == Cumulate(sorted, 1, sorted[1], 0, div)
             events  == TimedEvents(SortEvents(decoded.midiEvents), map, div)
         IN  [midiEvents |-> events,
              notePairs |-> BuildPairs(events, 1, <<>>, <<>>),
              totalDuration |-> IF Len(events) > 0 THEN Last(events).time ELSE 0,
              tempoMap |-> map, div |-> div]

---------------------------------------------------------------------------
(* The score path as a state machine.  The document is the input: it is    *)
(* built element by element while pc = "compose".  ParseXMLFile is the     *)
(* continuation of parseXMLFile after its await (part_000:585-612): it     *)
(* runs parseXMLString on the document and convertToMIDI on the result,    *)
(* synchronously, and pc = "converted" after it.                           *)

NoScore == [measures |-> <<>>, divisions |-> 1, beats |-> 4, beatType |-> 4,
            tempo |-> 500000]

NoHeader == [hasSound |-> FALSE, bpm |-> 0, divisions |-> 1, beats |-> 4, beatType |-> 4]

RECURSIVE MeasureCount(_, _)
MeasureCount(parts, p) ==
    IF p > Len(parts) THEN 0 ELSE Len(parts[p]) + MeasureCount(parts, p + 1)

RECURSIVE ChildCountOfPart(_, _)
ChildCountOfPart(part, m) ==
    IF m > Len(part) THEN 0 ELSE Len(part[m]) + ChildCountOfPart(part, m + 1)

RECURSIVE ChildCount(_, _)
ChildCount(parts, p) ==
    IF p > Len(parts) THEN 0
    ELSE ChildCountOfPart(parts[p], 1) + ChildCount(parts, p + 1)

MThd == <<77, 84, 104, 100>>

NoFile == [magic |-> MThd, division |-> 0, tracks |-> <<>>]

NoVlq == [n |-> 0, start |-> 0, v |-> 0, pos |-> 0]

NoResult == [state |-> "none", success |-> FALSE, hasText |-> FALSE, xmlText |-> <<>>]

\* nothing logged and no .mxl file read yet
NoLoad ==
    /\ logged = <<>>
    /\ zip = <<>>
    /\ pako = "loaded"
    /\ files = <<>>
    /\ result = NoResult

\* the globals of part_000:7-25 as they are declared, nothing pending, and a
\* page on which the OpenSheetMusicDisplay library is not defined
NoPlayback ==
    /\ scanOffset = 0
    /\ now = 0
    /\ playStartTime = 0
    /\ isPlaying = FALSE
    /\ nextEventIndex = 0
    /\ currentTimeOffset = 0
    /\ firstNoteOffset = 0
    /\ learningMode = FALSE
    /\ currentTargetNotes = <<>>
    /\ currentXMLString = "null"
    /\ isRendering = FALSE
    /\ osmdLoaded = FALSE
    /\ tasks = {}
    /\ dispatched = <<>>
    /\ requested = <<>>

\* the globals after clearCurrentFile, which every file handler calls first
Cleared ==
    /\ scoreData = NoScore
    /\ midiEvents = <<>>
    /\ notePairs = <<>>
    /\ totalDuration = 0

Init ==
    /\ pc = "compose"
    /\ hdr = NoHeader
    /\ doc = << << <<>> >> >>
    /\ Cleared
    /\ smf = NoFile
    /\ buffer = <<>>
    /\ tempoMap = <<>>
    /\ vlq = NoVlq
    /\ NoLoad
    /\ NoPlayback

\* one more child element in the last measure of the last part
AddChild ==
    /\ pc = "compose"
    /\ ChildCount(doc, 1) < MaxChildren
    /\ \E child \in Children :
          doc' = [doc EXCEPT ![Len(doc)][Len(doc[Len(doc)])] = Append(@, child)]
    /\ UNCHANGED <<pc, hdr, scoreData, outVars, midiVars, vlq, logged, zipVars, appVars>>

\* one more measure in the last part
AddMeasure ==
    /\ pc = "compose"
    /\ MeasureCount(doc, 1) < MaxMeasures
    /\ doc' = [doc EXCEPT ![Len(doc)] = Append(@, <<>>)]
    /\ UNCHANGED <<pc, hdr, scoreData, outVars, midiVars, vlq, logged, zipVars, appVars>>

\* one more part, with its first measure
AddPart ==
    /\ pc = "compose"
    /\ MeasureCount(doc, 1) < MaxMeasures
    /\ doc' = Append(doc, << <<>> >>)
    /\ UNCHANGED <<pc, hdr, scoreData, outVars, midiVars, vlq, logged, zipVars, appVars>>

\* result = await mxlConverter.parseFile(file); scoreData = result.scoreData;
\* conversionResult = mxlConverter.convertToMIDI(scoreData) and the three
\* assignments that follow it
\* When parseXMLString throws, parseFile catches and resolves to success: false
\* with the message (mxl2midi.js:146-151); parseXMLFile logs it and returns.
ParseXMLFile ==
    /\ pc = "compose"
    /\ \E h \in Headers : hdr' = h
    /\ IF parseXMLStringThrows(doc)
       THEN /\ logged' = Append(logged, "result.error")
            /\ pc' = "parse-failed"
            /\ UNCHANGED <<scoreData, outVars, nextEventIndex, currentTimeOffset>>
       ELSE /\ scoreData' = parseXMLString(hdr', doc)
            /\ LET conversionResult == convertToMIDI(scoreData')
               IN  /\ midiEvents' = conversionResult.midiEvents
                   /\ notePairs' = conversionResult.notePairs
                   /\ totalDuration' = conversionResult.totalDuration
            /\ nextEventIndex' = 0
            /\ currentTimeOffset' = 0
            /\ logged' = logged \o <<"MusicXML loaded", "Score converted">>
            /\ pc' = "converted"
    /\ UNCHANGED <<doc, midiVars, vlq, zipVars, scanOffset, now, playStartTime,
                   isPlaying, firstNoteOffset, learningMode, currentTargetNotes,
                   currentXMLString, isRendering, osmdLoaded, tasks, dispatched,
                   requested>>

Next == AddChild \/ AddMeasure \/ AddPart \/ ParseXMLFile

Spec == Init /\ [][Next]_vars

---------------------------------------------------------------------------
(* The .mxl path (src/mxl2midi.js:107-328).  Texts are sequences of        *)
(* character codes and files sequences of bytes; positions are 0-based as  *)
(* in the code.                                                            *)

\* 'META-INF/container.xml'
ContainerName ==
    <<77, 69, 84, 65, 45, 73, 78, 70, 47, 99, 111, 110, 116, 97, 105, 110,
      101, 114, 46, 120, 109, 108>>

\* 'META-INF/'
MetaInfPrefix ==
    <<77, 69, 84, 65, 45, 73, 78, 70, 47>>

\* '__MACOSX/'
MacosxPrefix ==
    <<95, 95, 77, 65, 67, 79, 83, 88, 47>>

\* '.xml'
XmlSuffix ==
    <<46, 120, 109, 108>>

\* '<?xml', the five bytes extractMXLFallback looks for
XmlProlog ==
    <<60, 63, 120, 109, 108>>

\* '</score-partwise>'
endTag ==
    <<60, 47, 115, 99, 111, 114, 101, 45, 112, 97, 114, 116, 119, 105, 115,
      101, 62>>

\* '</score-timewise>'
endTag2 ==
    <<60, 47, 115, 99, 111, 114, 101, 45, 116, 105, 109, 101, 119, 105, 115,
      101, 62>>

\* data.slice(from, to) of a typed array: a negative index counts from the
\* end and both are clamped to 0..length
Slice(data, from, to) ==
    LET n == Len(data)
        a == IF from < 0 THEN Max2(n + from, 0) ELSE IF from > n THEN n ELSE from
        b == IF to < 0 THEN Max2(n + to, 0) ELSE IF to > n THEN n ELSE to
    IN  IF a < b THEN SubSeq(data, a + 1, b) ELSE <<>>

\* readUint16(pos): data[pos] | (data[pos + 1] << 8)
readUint16(data, pos) == ToInt32(At(data, pos)) + ToInt32(At(data, pos + 1)) * 256

\* readUint32(pos): the fourth byte is shifted into the sign bit of the 32-bit
\* result
readUint32(data, pos) ==
    LET b3 == ToInt32(At(data, pos + 3))
    IN  ToInt32(At(data, pos)) + ToInt32(At(data, pos + 1)) * 256
        + ToInt32(At(data, pos + 2)) * 65536
        + (IF b3 >= 128 THEN b3 - 256 ELSE b3) * 16777216

\* decodeText: new TextDecoder('utf-8').decode(data) does not throw; an ASCII
\* byte is its character and a byte that is no part of a well-formed UTF-8
\* sequence is U+FFFD.  (The files of the model hold no well-formed multi-byte
\* sequence.)
decodeText(data) == [i \in DOMAIN data |-> IF data[i] < 128 THEN data[i] ELSE 65533]

\* s.toLowerCase() on the letters A..Z
toLowerCase(text) ==
    [i \in DOMAIN text |-> IF text[i] >= 65 /\ text[i] <= 90 THEN text[i] + 32 ELSE text[i]]

startsWith(text, prefix) ==
    Len(text) >= Len(prefix) /\ SubSeq(text, 1, Len(prefix)) = prefix

endsWith(text, suffix) ==
    Len(text) >= Len(suffix)
    /\ SubSeq(text, Len(text) - Len(suffix) + 1, Len(text)) = suffix

\* text.indexOf(pattern): the 0-based index of the first occurrence, -1 if none
indexOf(text, pattern) ==
    LET at == {i \in 1..(Len(text) - Len(pattern) + 1) :
                   SubSeq(text, i, i + Len(pattern) - 1) = pattern}
    IN  IF at = {} THEN 0 - 1 ELSE (CHOOSE i \in at : \A j \in at : i <= j) - 1

(* pako.inflateRaw on the two kinds of DEFLATE data of the model: a final   *)
(* stored block (byte 1, LEN and its complement NLEN in two little-endian   *)
(* bytes each, then LEN bytes), which inflates to its bytes, and data that  *)
(* starts with the reserved block type 3, on which it throws.              *)
InflateThrows(raw) ==
    \/ Len(raw) < 5
    \/ raw[1] # 1
    \/ raw[2] + raw[3] * 256 + raw[4] + raw[5] * 256 # 65535
    \/ Len(raw) < 5 + raw[2] + raw[3] * 256

inflateRaw(raw) == SubSeq(raw, 6, 5 + raw[2] + raw[3] * 256)

\* fileData as it is pushed (mxl2midi.js:260-273): the inflated bytes of a
\* DEFLATE member when pako is there and inflateRaw returns, else the raw bytes
MemberDataLostOnFailure(compressionMethod, raw, inflater) ==
    IF compressionMethod = 8
    THEN IF inflater = "loaded" /\ ~InflateThrows(raw) THEN inflateRaw(raw) ELSE <<>>
    ELSE raw

MemberData(compressionMethod, raw, inflater) ==
    IF compressionMethod = 8 /\ inflater = "loaded" /\ ~InflateThrows(raw)
    THEN inflateRaw(raw)
    ELSE raw

\* the offset at which the turns that only do offset++ stop, started at an
\* offset below data.length - 4 that holds no signature: the next offset that
\* holds one, or data.length - 4, where the loop ends
NextSignature(data, offset) ==
    LET ahead == { o \in (offset + 1)..(Len(data) - 5) : readUint32(data, o) = 67324752 }
    IN  IF ahead = {} THEN Len(data) - 4
        ELSE CHOOSE o \in ahead : \A other \in ahead : o <= other

\* the turns of while (offset < data.length - 4) up to and including the next
\* one that reads a member, or up to the end: st = [offset, files]
parseZIPStep(data, st, inflater) ==
    IF readUint32(data, st.offset) = 67324752
    THEN LET compressionMethod == readUint16(data, st.offset + 8)
             compressedSize    == readUint32(data, st.offset + 18)
             fileNameLength    == readUint16(data, st.offset + 26)
             extraFieldLength  == readUint16(data, st.offset + 28)
             fileNameStart     == st.offset + 30
             fileName == decodeText(Slice(data, fileNameStart,
                                          fileNameStart + fileNameLength))
             dataStart == fileNameStart + fileNameLength + extraFieldLength
             dataEnd   == dataStart + compressedSize
         IN  [offset |-> dataEnd,
              files  |-> Append(st.files,
                                [name |-> fileName,
                                 data |-> MemberData(compressionMethod,
                                                     Slice(data, dataStart, dataEnd),
                                                     inflater)])]
    ELSE [st EXCEPT !.offset = NextSignature(data, @)]

RECURSIVE parseZIPFrom(_, _, _)
parseZIPFrom(data, st, inflater) ==
    IF st.offset < Len(data) - 4
    THEN parseZIPFrom(data, parseZIPStep(data, st, inflater), inflater)
    ELSE st.files

\* parseZIP(data); inflater tells whether pako is defined
parseZIP(data, inflater) == parseZIPFrom(data, [offset |-> 0, files |-> <<>>], inflater)

---------------------------------------------------------------------------
(* The input of the .mxl path.  A file is written from chunks: members     *)
(* (local file header, name, data) and bytes that belong to no member.     *)
(* A member records, next to its raw data, the bytes it was made from       *)
(* (content) and whether its raw data is sound DEFLATE data.               *)

\* 's.xml'
ScoreName ==
    <<115, 46, 120, 109, 108>>

\* 'T.XML'
UpperName ==
    <<84, 46, 88, 77, 76>>

\* 'x.xml', the name of no member
MissingName ==
    <<120, 46, 120, 109, 108>>

\* '__MACOSX/s.xml'
MacosxName ==
    <<95, 95, 77, 65, 67, 79, 83, 88, 47, 115, 46, 120, 109, 108>>

\* a score-partwise document without parts
ScoreText ==
    <<60, 63, 120, 109, 108, 32, 118, 101, 114, 115, 105, 111, 110, 61, 34,
      49, 46, 48, 34, 63, 62, 60, 115, 99, 111, 114, 101, 45, 112, 97, 114,
      116, 119, 105, 115, 101, 62, 60, 47, 115, 99, 111, 114, 101, 45, 112,
      97, 114, 116, 119, 105, 115, 101, 62>>

\* a score-timewise document without parts
TimewiseText ==
    <<60, 63, 120, 109, 108, 32, 118, 101, 114, 115, 105, 111, 110, 61, 34,
      49, 46, 48, 34, 63, 62, 60, 115, 99, 111, 114, 101, 45, 116, 105, 109,
      101, 119, 105, 115, 101, 62, 60, 47, 115, 99, 111, 114, 101, 45, 116,
      105, 109, 101, 119, 105, 115, 101, 62>>

\* '<rootfile full-path="'
RootfileOpen ==
    <<60, 114, 111, 111, 116, 102, 105, 108, 101, 32, 102, 117, 108, 108, 45,
      112, 97, 116, 104, 61, 34>>

\* '"/>'
RootfileClose ==
    <<34, 47, 62>>

\* a score-partwise document without an XML declaration
BareScoreText ==
    <<60, 115, 99, 111, 114, 101, 45, 112, 97, 114, 116, 119, 105, 115, 101,
      62, 60, 47, 115, 99, 111, 114, 101, 45, 112, 97, 114, 116, 119, 105,
      115, 101, 62>>

\* a container.xml whose rootfile names the member
ContainerText(name) == RootfileOpen \o name \o RootfileClose

\* a final stored block of raw DEFLATE data
Deflate(content) ==
    <<1, Len(content) % 256, Len(content) \div 256,
      255 - (Len(content) % 256), 255 - (Len(content) \div 256)>> \o content

\* DEFLATE data that starts with a block of the reserved type 3
Corrupt(content) == <<7>> \o content

Member(name, method, raw, content, sound) ==
    [kind |-> "member", name |-> name, method |-> method, raw |-> raw,
     content |-> content, sound |-> sound]

Stored(name, content) == Member(name, 0, content, content, TRUE)

Deflated(name, content) == Member(name, 8, Deflate(content), content, TRUE)

Bytes(raw) ==
    [kind |-> "bytes", name |-> <<>>, method |-> 0, raw |-> raw,
     content |-> raw, sound |-> TRUE]

\* the members a file of the model is written from
Members ==
    { Stored(ContainerName, ContainerText(ScoreName)),
      Stored(ContainerName, ContainerText(MissingName)),
      Stored(ScoreName, ScoreText),
      Stored(ScoreName, BareScoreText),
      Deflated(ScoreName, ScoreText),
      Member(ScoreName, 8, Corrupt(ScoreText), ScoreText, FALSE),
      Member(UpperName, 99, TimewiseText, TimewiseText, TRUE),
      Stored(MacosxName, <<255>>) }

\* bytes between members: an invalid byte, and the first three bytes of the
\* local file header signature
Garbage == { Bytes(<<255>>), Bytes(<<80, 75, 3>>) }

\* texts outside the members: whole documents, a closing tag and a prolog
Texts == { Bytes(ScoreText), Bytes(TimewiseText), Bytes(endTag), Bytes(XmlProlog) }

\* n in two and in four little-endian bytes
Le16(n) == <<n % 256, (n \div 256) % 256>>

Le32(n) == <<n % 256, (n \div 256) % 256, (n \div 65536) % 256, (n \div 16777216) % 256>>

\* a local file header (signature, version, flags, method, time, date, crc-32,
\* compressed and uncompressed size, name and extra field lengths), the name
\* and the data
EncodeChunk(chunk) ==
    IF chunk.kind = "member"
    THEN <<80, 75, 3, 4>> \o Le16(20) \o Le16(0) \o Le16(chunk.method)
         \o Le16(0) \o Le16(0) \o Le32(0)
         \o Le32(Len(chunk.raw)) \o Le32(Len(chunk.content))
         \o Le16(Len(chunk.name)) \o Le16(0)
         \o chunk.name \o chunk.raw
    ELSE chunk.raw

RECURSIVE EncodeZip(_, _)
EncodeZip(chunks, i) ==
    IF i > Len(chunks) THEN <<>>
    ELSE EncodeChunk(chunks[i]) \o EncodeZip(chunks, i + 1)

---------------------------------------------------------------------------
(* extractMXLFallback, extractMXL and parseFile.  A text that may be null  *)
(* is a record [hasText, text].                                            *)

NoText == [hasText |-> FALSE, text |-> <<>>]

SomeText(text) == [hasText |-> TRUE, text |-> text]

\* the bound of the scan window of extractMXLFallback
MaxScanWindow == 5000000

\* xmlContent cut after the closing tag: </score-partwise> is looked for first
\* and </score-timewise> only when there is none
Truncate(xmlContent) ==
    LET first  == indexOf(xmlContent, endTag)
        endIdx == IF first = 0 - 1 THEN indexOf(xmlContent, endTag2) ELSE first
    IN  IF endIdx # 0 - 1
        THEN SomeText(SubSeq(xmlContent, 1, endIdx + Len(endTag)))
        ELSE NoText

\* what the turn i of for (let i = 0; i < zipData.length - 5; i++) finds: a
\* text when the prolog is at i and a closing tag follows, nothing otherwise
FallbackAt(zipData, i) ==
    IF /\ At(zipData, i) = 60 /\ At(zipData, i + 1) = 63
       /\ At(zipData, i + 2) = 120 /\ At(zipData, i + 3) = 109
       /\ At(zipData, i + 4) = 108
    THEN LET maxLength == IF Len(zipData) - i < MaxScanWindow
                          THEN Len(zipData) - i ELSE MaxScanWindow
         IN  Truncate(decodeText(Slice(zipData, i, i + maxLength)))
    ELSE NoText

\* the loop returns what its first turn that finds a text finds, or null
extractMXLFallback(zipData) ==
    LET turns == { i \in 0..(Len(zipData) - 6) : FallbackAt(zipData, i).hasText }
    IN  IF turns = {} THEN NoText
        ELSE FallbackAt(zipData, CHOOSE i \in turns : \A other \in turns : i <= other)

\* the least place of a set of places of a list, 0 when the set is empty:
\* what Array.find comes to on the places that have the property
FirstPlace(places) ==
    IF places = {} THEN 0
    ELSE CHOOSE i \in places : \A other \in places : i <= other

\* files.find(f => f.name === name)
FindByName(list, name) == FirstPlace({ i \in DOMAIN list : list[i].name = name })

\* rootfile.getAttribute("full-path") of the first rootfile of the parsed
\* container; DOMParser is the platform's: of the texts of the model it parses
\* the containers written by ContainerText, and gives a document without a
\* rootfile (a parsererror) for any other text
RootfilePath(containerXML) ==
    IF \E name \in {ScoreName, UpperName, MissingName, MacosxName} :
           containerXML = ContainerText(name)
    THEN SomeText(SubSeq(containerXML, Len(RootfileOpen) + 1,
                         Len(containerXML) - Len(RootfileClose)))
    ELSE NoText

\* Method 2: the first .xml file outside META-INF/ and __MACOSX/
IsScoreFile(f) ==
    /\ endsWith(toLowerCase(f.name), XmlSuffix)
    /\ ~startsWith(f.name, MetaInfPrefix)
    /\ ~startsWith(f.name, MacosxPrefix)

\* xmlFileName after Method 1, taken from the container alone
NameByContainerOnly(list) ==
    LET c == FindByName(list, ContainerName)
    IN  IF c = 0 THEN NoText ELSE RootfilePath(decodeText(list[c].data))

\* files.find of Method 2
FindScoreFile(list) == FirstPlace({ i \in DOMAIN list : IsScoreFile(list[i]) })

\* xmlFileName after Method 1 and Method 2; a name that is null or empty lets
\* Method 2 run
FileNameOf(list) ==
    LET byContainer == NameByContainerOnly(list)
        x == FindScoreFile(list)
    IN  IF byContainer.hasText /\ byContainer.text # <<>> THEN byContainer
        ELSE IF x # 0 THEN SomeText(list[x].name)
        ELSE NoText

\* extractMXL on the bytes of the file (no statement of its try block throws
\* on them)
extractMXL(data, inflater) ==
    LET list == parseZIP(data, inflater)
    IN  IF Len(list) = 0 THEN extractMXLFallback(data)
        ELSE LET xmlFileName == FileNameOf(list)
             IN  IF ~xmlFileName.hasText THEN extractMXLFallback(data)
                 ELSE LET t == FindByName(list, xmlFileName.text)
                      IN  IF t = 0 THEN extractMXLFallback(data)
                          ELSE SomeText(decodeText(list[t].data))

\* whether parseXMLString finds no parsererror: DOMParser, on the texts of the
\* model, parses the three documents and nothing else
WellFormed(xmlText) == xmlText \in {ScoreText, TimewiseText, BareScoreText}

\* how the promise of parseFile settles for a file named *.mxl.  _ensureReady
\* awaits window._mxl2midiInitPromise before the try block: when the loading
\* of pako failed that promise is rejected and so is parseFile's.
parseFile(data, inflater) ==
    IF inflater = "load-failed"
    THEN [state |-> "rejected", success |-> FALSE, hasText |-> FALSE, xmlText |-> <<>>]
    ELSE LET xmlText == extractMXL(data, inflater)
         IN  [state   |-> "resolved",
              success |-> xmlText.hasText /\ xmlText.text # <<>>
                          /\ WellFormed(xmlText.text),
              hasText |-> xmlText.hasText,
              xmlText |-> xmlText.text]

---------------------------------------------------------------------------
(* parseZIP on its own: a file is written chunk by chunk while             *)
(* pc = "zip-compose" and parseZIP is applied to its bytes, with pako       *)
(* defined or not (pc = "zip-scanned").                                    *)

InitZip ==
    /\ pc = "zip-compose"
    /\ hdr = NoHeader
    /\ doc = <<>>
    /\ Cleared
    /\ smf = NoFile
    /\ buffer = <<>>
    /\ tempoMap = <<>>
    /\ vlq = NoVlq
    /\ NoLoad
    /\ NoPlayback

\* one more member
AddMember ==
    /\ pc = "zip-compose"
    /\ Len(zip) < MaxChunks
    /\ \E chunk \in Members : zip' = Append(zip, chunk)
    /\ UNCHANGED <<pc, scoreVars, outVars, midiVars, vlq, logged, pako, files, result, appVars>>

\* one more run of bytes outside the members
AddGarbage ==
    /\ pc = "zip-compose"
    /\ Len(zip) < MaxChunks
    /\ \E chunk \in Garbage : zip' = Append(zip, chunk)
    /\ UNCHANGED <<pc, scoreVars, outVars, midiVars, vlq, logged, pako, files, result, appVars>>

ParseZip ==
    /\ pc = "zip-compose"
    /\ buffer' = EncodeZip(zip, 1)
    /\ \E inflater \in {"loaded", "undefined"} : pako' = inflater
    /\ files' = parseZIP(buffer', pako')
    /\ pc' = "zip-scanned"
    /\ UNCHANGED <<scoreVars, outVars, smf, tempoMap, vlq, logged, zip, result, appVars>>

NextScan == AddMember \/ AddGarbage \/ ParseZip

SpecScan == InitZip /\ [][NextScan]_vars

---------------------------------------------------------------------------
(* parseZIP turn by turn, on files with local file headers whose size and  *)
(* length fields hold any value: pc = "zip-scanning" while the loop runs.  *)
(* A turn is one run of parseZIPStep.  A scan that has read MaxScanned     *)
(* members is cut off.                                                     *)

\* the four bytes of a compressed-size field: 0, 2, 2^30 - 1, and -1, -30 and
\* -35 as readUint32 reads them
SizeFields ==
    { <<0, 0, 0, 0>>, <<2, 0, 0, 0>>, <<255, 255, 255, 63>>,
      <<255, 255, 255, 255>>, <<226, 255, 255, 255>>, <<221, 255, 255, 255>> }

\* a local file header of a stored member with these fields
RawHeader(size, nameLength, extraLength) ==
    <<80, 75, 3, 4>> \o Le16(20) \o Le16(0) \o Le16(0) \o Le16(0) \o Le16(0)
    \o Le32(0) \o size \o Le32(0) \o Le16(nameLength) \o Le16(extraLength)

\* one more local file header, without name or data of its own
AddHeader ==
    /\ pc = "zip-compose"
    /\ Len(zip) < MaxChunks
    /\ \E size \in SizeFields, nameLength \in {0, 5}, extraLength \in {0, 1} :
          zip' = Append(zip, Bytes(RawHeader(size, nameLength, extraLength)))
    /\ UNCHANGED <<pc, scoreVars, outVars, midiVars, vlq, logged, pako, files, result,
                   appVars>>

\* const files = []; let offset = 0;
StartScan ==
    /\ pc = "zip-compose"
    /\ buffer' = EncodeZip(zip, 1)
    /\ files' = <<>>
    /\ scanOffset' = 0
    /\ pc' = "zip-scanning"
    /\ UNCHANGED <<scoreVars, outVars, smf, tempoMap, vlq, logged, zip, pako, result,
                   now, playStartTime, isPlaying, nextEventIndex, currentTimeOffset,
                   firstNoteOffset, learningMode, currentTargetNotes,
                   currentXMLString, isRendering, osmdLoaded, tasks, dispatched,
                   requested>>

\* the body of while (offset < data.length - 4)
ScanTurn ==
    /\ pc = "zip-scanning"
    /\ scanOffset < Len(buffer) - 4
    /\ Len(files) < MaxScanned
    /\ LET st == parseZIPStep(buffer, [offset |-> scanOffset, files |-> files], pako)
       IN  /\ scanOffset' = st.offset
           /\ files' = st.files
    /\ UNCHANGED <<pc, scoreVars, outVars, midiVars, vlq, logged, zip, pako, result,
                   now, playStartTime, isPlaying, nextEventIndex, currentTimeOffset,
                   firstNoteOffset, learningMode, currentTargetNotes,
                   currentXMLString, isRendering, osmdLoaded, tasks, dispatched,
                   requested>>

\* the loop ends; return files
ScanEnd ==
    /\ pc = "zip-scanning"
    /\ ~(scanOffset < Len(buffer) - 4)
    /\ pc' = "zip-scanned"
    /\ UNCHANGED <<scoreVars, outVars, midiVars, vlq, logged, zipVars, appVars>>

NextTurns == AddMember \/ AddGarbage \/ AddHeader \/ StartScan \/ ScanTurn \/ ScanEnd

SpecTurns == InitZip /\ [][NextTurns]_vars

---------------------------------------------------------------------------
(* parseFile on an .mxl file: the file is written chunk by chunk, texts     *)
(* outside the members included, and parseFile runs on its bytes, pako      *)
(* being loaded, undefined after a load that did not fail, or undefined     *)
(* after a load that failed; pc = "mxl-settled" when its promise settles.   *)
(* result.hasText and result.xmlText are the local xmlText of parseFile.    *)

\* one more text outside the members
AddText ==
    /\ pc = "zip-compose"
    /\ Len(zip) < MaxChunks
    /\ \E chunk \in Texts : zip' = Append(zip, chunk)
    /\ UNCHANGED <<pc, scoreVars, outVars, midiVars, vlq, logged, pako, files, result, appVars>>

ParseFile ==
    /\ pc = "zip-compose"
    /\ buffer' = EncodeZip(zip, 1)
    /\ \E inflater \in {"loaded", "undefined", "load-failed"} : pako' = inflater
    /\ files' = IF pako' = "load-failed" THEN <<>> ELSE parseZIP(buffer', pako')
    /\ result' = parseFile(buffer', pako')
    /\ pc' = "mxl-settled"
    /\ UNCHANGED <<scoreVars, outVars, smf, tempoMap, vlq, logged, zip, appVars>>

NextMxl == AddMember \/ AddGarbage \/ AddText \/ ParseFile

SpecMxl == InitZip /\ [][NextMxl]_vars

---------------------------------------------------------------------------
(* The score path on notes of every pitch: a single measure is written     *)
(* from notes of the lowest and highest octaves and from a note without a  *)
(* <step>, then parsed and converted by the same handler.                  *)

PitchOctaves == {MinOctave, MinOctave + 1, 4, MaxOctave}

PitchChildren ==
    { PitchedNote(step, octave, alter, 1, FALSE) :
        step \in {"C", "G", "B"}, octave \in PitchOctaves, alter \in {0 - 1, 0, 1} }
    \cup { PitchWithoutStep(4, 1) }

\* one more note in the measure
AddPitch ==
    /\ pc = "compose"
    /\ Len(doc[1][1]) < MaxPitchNotes
    /\ \E child \in PitchChildren :
          doc' = [doc EXCEPT ![1][1] = Append(@, child)]
    /\ UNCHANGED <<pc, hdr, scoreData, outVars, midiVars, vlq, logged, zipVars, appVars>>

NextPitch == AddPitch \/ ParseXMLFile

SpecPitch == Init /\ [][NextPitch]_vars

---------------------------------------------------------------------------
(* The SMF path as a state machine.  The file is the input: it is written  *)
(* event by event while pc = "write".  ParseMidiFile is parseMidiFile from *)
(* its await on (part_000:632-745), which runs synchronously on the bytes  *)
(* of the file; pc = "midi-parsed" after it.                               *)

RECURSIVE EventCount(_, _)
EventCount(tracks, i) ==
    IF i > Len(tracks) THEN 0 ELSE Len(tracks[i]) + EventCount(tracks, i + 1)

InitMidi ==
    /\ pc = "write"
    /\ hdr = NoHeader
    /\ doc = <<>>
    /\ Cleared
    /\ smf = [magic |-> MThd, division |-> 0, tracks |-> << <<>> >>]
    /\ buffer = <<>>
    /\ tempoMap = <<>>
    /\ vlq = NoVlq
    /\ NoLoad
    /\ NoPlayback

\* one more event in the last track
WriteEvent ==
    /\ pc = "write"
    /\ EventCount(smf.tracks, 1) < MaxEvents
    /\ \E ev \in TrackEvents :
          smf' = [smf EXCEPT !.tracks[Len(smf.tracks)] = Append(@, ev)]
    /\ UNCHANGED <<pc, scoreVars, outVars, buffer, tempoMap, vlq, logged, zipVars, appVars>>

\* one more note message in the last track, in running status after a note
\* message of the same status
WriteRunning ==
    /\ pc = "write"
    /\ EventCount(smf.tracks, 1) < MaxEvents
    /\ smf.tracks[Len(smf.tracks)] # <<>>
    /\ LET prev == Last(smf.tracks[Len(smf.tracks)])
       IN  /\ prev.kind \in {"on", "off"}
           /\ \E ev \in RunningEvents(prev.kind) :
                 smf' = [smf EXCEPT !.tracks[Len(smf.tracks)] = Append(@, ev)]
    /\ UNCHANGED <<pc, scoreVars, outVars, buffer, tempoMap, vlq, logged, zipVars, appVars>>

\* one more track
WriteTrack ==
    /\ pc = "write"
    /\ Len(smf.tracks) < MaxTracks
    /\ smf' = [smf EXCEPT !.tracks = Append(@, <<>>)]
    /\ UNCHANGED <<pc, scoreVars, outVars, buffer, tempoMap, vlq, logged, zipVars, appVars>>

\* data = new Uint8Array(await file.arrayBuffer()) and all that follows it
ParseMidiFile ==
    /\ pc = "write"
    /\ \E d \in Divisions : smf' = [smf EXCEPT !.division = d]
    /\ buffer' = EncodeFile(smf')
    /\ LET parsed == parseMidiFile(buffer', notePairs, totalDuration)
       IN  /\ midiEvents' = parsed.midiEvents
           /\ notePairs' = parsed.notePairs
           /\ totalDuration' = parsed.totalDuration
           /\ tempoMap' = parsed.tempoMap
    /\ IF readStr(buffer', 0, 4) # MThd
       THEN pc' = "midi-rejected" /\ logged' = logged
       ELSE pc' = "midi-parsed" /\ logged' = Append(logged, "File Ready.")
    /\ nextEventIndex' = 0
    /\ UNCHANGED <<scoreVars, vlq, zipVars, scanOffset, now, playStartTime, isPlaying,
                   currentTimeOffset, firstNoteOffset, learningMode,
                   currentTargetNotes, currentXMLString, isRendering, osmdLoaded,
                   tasks, dispatched, requested>>

NextMidi == WriteEvent \/ WriteTrack \/ ParseMidiFile

SpecMidi == InitMidi /\ [][NextMidi]_vars

\* the SMF path on files whose first four bytes are not "MThd": "RIFF", "MTrk"
\* and "MThD"
BadMagics == {<<82, 73, 70, 70>>, <<77, 84, 114, 107>>, <<77, 84, 104, 68>>}

InitHeader ==
    /\ pc = "write"
    /\ hdr = NoHeader
    /\ doc = <<>>
    /\ Cleared
    /\ \E magic \in BadMagics :
          smf = [magic |-> magic, division |-> 0, tracks |-> << <<>> >>]
    /\ buffer = <<>>
    /\ tempoMap = <<>>
    /\ vlq = NoVlq
    /\ NoLoad
    /\ NoPlayback

SpecHeader == InitHeader /\ [][NextMidi]_vars

\* one more event with its status byte in the last track, of the files that
\* may use running status: a note message or one set-tempo
WriteStatus ==
    /\ pc = "write"
    /\ EventCount(smf.tracks, 1) < MaxEvents
    /\ \E ev \in { e \in TrackEvents : e.kind \in {"on", "off"}
                                        \/ (e.delta = 480 /\ e.tempo = 250000) } :
          smf' = [smf EXCEPT !.tracks[Len(smf.tracks)] = Append(@, ev)]
    /\ UNCHANGED <<pc, scoreVars, outVars, buffer, tempoMap, vlq, logged, zipVars, appVars>>

\* the SMF path on files that may use running status
NextRunning == WriteStatus \/ WriteRunning \/ WriteTrack \/ ParseMidiFile

SpecRunning == InitMidi /\ [][NextRunning]_vars

\* one more note message in the last track, of the files that hold note
\* messages only
WriteNote ==
    /\ pc = "write"
    /\ EventCount(smf.tracks, 1) < MaxNotes
    /\ \E ev \in { e \in TrackEvents : e.kind \in {"on", "off"} } :
          smf' = [smf EXCEPT !.tracks[Len(smf.tracks)] = Append(@, ev)]
    /\ UNCHANGED <<pc, scoreVars, outVars, buffer, tempoMap, vlq, logged, zipVars, appVars>>

\* the SMF path on files of up to MaxNotes note messages
NextNotes == WriteNote \/ WriteTrack \/ ParseMidiFile

SpecNotes == InitMidi /\ [][NextNotes]_vars

\* one more message in the last track, of the files with polyphonic
\* aftertouch messages (status 0xA0, two data bytes): an aftertouch message
\* or a note message, with a delta-time of one byte
WriteShort ==
    /\ pc = "write"
    /\ EventCount(smf.tracks, 1) < MaxNotes
    /\ \E d \in {0, 96} :
          \E ev \in { TrackEvent(d, "aftertouch", 60, 64, 0),
                      TrackEvent(d, "on", 60, 100, 0),
                      TrackEvent(d, "off", 60, 0, 0) } :
              smf' = [smf EXCEPT !.tracks[Len(smf.tracks)] = Append(@, ev)]
    /\ UNCHANGED <<pc, scoreVars, outVars, buffer, tempoMap, vlq, logged, zipVars, appVars>>

\* the SMF path on files with messages of a status family that parseMidiFile
\* has no branch for
NextAftertouch == WriteShort \/ WriteTrack \/ ParseMidiFile

SpecAftertouch == InitMidi /\ [][NextAftertouch]_vars

---------------------------------------------------------------------------
(* readVar on its own: a number is written as a variable-length quantity   *)
(* between two other bytes (pc = "vlq-written") and readVar is applied at  *)
(* its first byte (pc = "vlq-read").                                       *)

VlqLimit == 128 * 128 * 128 * 128

VlqInputs ==
    {n \in UNION {(c - VlqSpread)..(c + VlqSpread) :
                     c \in {0, 128, 128 * 128, 128 * 128 * 128, VlqLimit}} :
        n >= 0 /\ n < VlqLimit}

InitVlq ==
    /\ pc = "vlq-idle"
    /\ hdr = NoHeader
    /\ doc = <<>>
    /\ Cleared
    /\ smf = NoFile
    /\ buffer = <<>>
    /\ tempoMap = <<>>
    /\ vlq = NoVlq
    /\ NoLoad
    /\ NoPlayback

\* the bytes of n, after one byte and before another
VlqWrite ==
    /\ pc = "vlq-idle"
    /\ \E n \in VlqInputs, before \in {0, 255}, after \in {0, 255} :
          /\ buffer' = <<before>> \o EncodeVar(n) \o <<after>>
          /\ vlq' = [n |-> n, start |-> 1, v |-> 0, pos |-> 1]
    /\ pc' = "vlq-written"
    /\ UNCHANGED <<scoreVars, outVars, smf, tempoMap, logged, zipVars, appVars>>

\* pos = vlq.start; v = readVar()
VlqRead ==
    /\ pc = "vlq-written"
    /\ LET r == readVar(buffer, vlq.start)
       IN  vlq' = [vlq EXCEPT !.v = r.v, !.pos = r.pos]
    /\ pc' = "vlq-read"
    /\ UNCHANGED <<scoreVars, outVars, midiVars, logged, zipVars, appVars>>

NextVlq == VlqWrite \/ VlqRead

SpecVlq == InitVlq /\ [][NextVlq]_vars

---------------------------------------------------------------------------
(* Claims about the score path, checked under Spec.                        *)

\* the notes convertToMIDI resolves from the parsed score, before de-duplication
Resolved == allNotes(scoreData)

\* the notes that survive de-duplication, in the order they are emitted
Surviving == Survivors(Dedup(Resolved, 1, <<>>), 1)

\* how often e occurs in the sequence s
Count(s, e) == Cardinality({i \in DOMAIN s : s[i] = e})

\* t rounded to two decimals of a millisecond: the multiple of 10 microseconds
\* nearest to t, the upper one when t is half-way
RoundedTo2Decimals(t) ==
    CHOOSE k \in (t - 10)..(t + 10) : k % 10 = 0 /\ k - 5 <= t /\ t < k + 5

\* C1: after convertToMIDI, midiEvents is non-decreasing in time: every two
\* adjacent events e[i], e[i+1] have e[i].time <= e[i+1].time.
C1_EventsSortedByTime ==
    pc = "converted" =>
        \A i \in 1..(Len(midiEvents) - 1) :
            midiEvents[i].time <= midiEvents[i + 1].time

\* a conversion whose events were not emitted in time order: the sort moved some
C1_Witness ==
    /\ pc = "converted"
    /\ Len(midiEvents) >= 4
    /\ midiEvents # GenerateEvents(Surviving, 1)

\* the notes in the group of note i of the resolved notes A: same rounded start
\* (key[j] is the rounded start of A[j]), same pitch
C2_Group(A, key, i) ==
    {j \in DOMAIN A : A[j].midiNote = A[i].midiNote /\ key[j] = key[i]}

\* the first note of greatest duration in a group
C2_Kept(A, g) ==
    CHOOSE k \in g :
        /\ \A j \in g : A[j].duration <= A[k].duration
        /\ \A j \in g : A[j].duration = A[k].duration => k <= j

\* C2: convertToMIDI keeps exactly one note per group (start rounded to 2
\* decimals, pitch) of the resolved notes: the first one of greatest duration
\* (a later note replaces the kept one only when strictly longer).
C2_DedupKeepsLongest ==
    pc = "converted" =>
        LET A    == Resolved
            key  == [i \in DOMAIN A |-> RoundedTo2Decimals(A[i].startTime)]
            pkey == [p \in DOMAIN notePairs |-> RoundedTo2Decimals(notePairs[p].start)]
        IN  /\ \A i \in DOMAIN A :
                  LET k == C2_Kept(A, C2_Group(A, key, i))
                      inGroup == {p \in DOMAIN notePairs :
                                     /\ notePairs[p].note = A[i].midiNote
                                     /\ pkey[p] = key[i]}
                  IN  /\ Cardinality(inGroup) = 1
                      /\ \A p \in inGroup :
                            notePairs[p] = [note  |-> A[k].midiNote,
                                            start |-> A[k].startTime,
                                            end   |-> A[k].endTime]
            /\ \A p \in DOMAIN notePairs :
                  \E i \in DOMAIN A : /\ notePairs[p].note = A[i].midiNote
                                      /\ notePairs[p].start = A[i].startTime

\* a conversion in which a later, strictly longer note, whose start differs
\* before rounding, replaced the kept one of its group
C2_Witness ==
    /\ pc = "converted"
    /\ LET A   == Resolved
           key == [i \in DOMAIN A |-> RoundedTo2Decimals(A[i].startTime)]
       IN  \E i, j \in DOMAIN A :
              /\ i < j
              /\ j \in C2_Group(A, key, i)
              /\ A[j].duration > A[i].duration
              /\ A[j].startTime # A[i].startTime

\* End-to-end example A: divisions 1, 4/4, 120 bpm, one part with one measure
\* holding C4 (duration 1), a rest (duration 1) and E4 (duration 1)
ExampleAHeader ==
    [hasSound |-> TRUE, bpm |-> 120, divisions |-> 1, beats |-> 4, beatType |-> 4]

ExampleADoc ==
    << << << PitchedNote("C", 4, 0, 1, FALSE), RestNote(1),
             PitchedNote("E", 4, 0, 1, FALSE) >> >> >>

\* C3: every note convertToMIDI outputs has start = measureIndex * msPerMeasure
\* + onset * msPerDivision and end = start + duration * msPerDivision, where
\* msPerDivision = (tempo / 1000) / divisions and msPerMeasure = (beats *
\* divisions * 4 / beatType) * msPerDivision; and example A yields C4 over
\* [0, 500 ms), E4 over [1000 ms, 1500 ms) and totalDuration 1500 ms (times in
\* microseconds here).
C3_ResolvedTimes ==
    pc = "converted" =>
        /\ LET perDivision == scoreData.tempo \div scoreData.divisions
               perMeasure  == ((scoreData.beats * scoreData.divisions * 4)
                                  \div scoreData.beatType) * perDivision
           IN  \A p \in DOMAIN notePairs :
                  \E m \in DOMAIN scoreData.measures :
                     \E n \in DOMAIN scoreData.measures[m].notes :
                        LET note == scoreData.measures[m].notes[n]
                        IN  /\ ~note.isRest
                            /\ notePairs[p].note = note.midiNote
                            /\ notePairs[p].start
                                 = (m - 1) * perMeasure + note.time * perDivision
                            /\ notePairs[p].end
                                 = notePairs[p].start + note.duration * perDivision
        /\ (hdr = ExampleAHeader /\ doc = ExampleADoc) =>
              /\ notePairs = << [note |-> 60, start |-> 0, end |-> 500000],
                                [note |-> 64, start |-> 1000000, end |-> 1500000] >>
              /\ totalDuration = 1500000

\* example A converted, and a conversion with a note outside the first measure
C3_Witness ==
    /\ pc = "converted"
    /\ hdr = ExampleAHeader
    /\ doc = ExampleADoc
    /\ Len(notePairs) = 2

\* the entries of one part among the notes of a measure, in order
PartNotes(notes, partIdx) == SelectSeq(notes, LAMBDA n : n.part = partIdx)

\* C4: a note carrying the chord marker is recorded with the same onset (time)
\* as the immediately preceding note of the same part and measure.
C4_ChordSharesOnset ==
    pc = "converted" =>
        \A m \in DOMAIN scoreData.measures :
            \A p \in DOMAIN doc :
                LET recorded == PartNotes(scoreData.measures[m].notes, p - 1)
                IN  \A k \in 2..Len(recorded) :
                        recorded[k].isChord => recorded[k].time = recorded[k - 1].time

\* what a child element adds to the clock of its measure
C5_ClockDelta(child) ==
    IF ~child.hasDuration THEN 0
    ELSE IF child.tag = "backup" THEN 0 - child.duration
    ELSE IF child.tag = "forward" THEN child.duration
    ELSE IF child.tag = "note" /\ child.pitch /\ ~child.chord THEN child.duration
    ELSE IF child.tag = "note" /\ ~child.pitch /\ child.rest THEN child.duration
    ELSE 0

\* the running total of the first n children of a measure
RECURSIVE C5_RunningTotal(_, _)
C5_RunningTotal(children, n) ==
    IF n = 0 THEN 0
    ELSE C5_RunningTotal(children, n - 1) + C5_ClockDelta(children[n])

\* the positions of the children that are recorded: pitched notes, and rests
\* with a duration
C5_RecordedPositions(children) ==
    SelectSeq([i \in 1..Len(children) |-> i],
              LAMBDA i : /\ children[i].tag = "note"
                         /\ (children[i].pitch
                             \/ (children[i].rest /\ children[i].hasDuration)))

\* C5: in every measure of every part the clock starts at 0 and every note or
\* rest is recorded with onset equal to the running total over the earlier
\* children: plus the duration of each non-chord note and of each rest, plus
\* each forward, minus each backup.  (So a chord group advances the clock once,
\* and a backup below 0 gives the next note a negative onset.)
C5_OnsetIsRunningTotal ==
    pc = "converted" =>
        \A p \in DOMAIN doc :
            \A m \in DOMAIN doc[p] :
                LET children == doc[p][m]
                    recorded == PartNotes(scoreData.measures[m].notes, p - 1)
                    at       == C5_RecordedPositions(children)
                IN  /\ Len(recorded) = Len(at)
                    /\ \A k \in DOMAIN at :
                          /\ recorded[k].time = C5_RunningTotal(children, at[k] - 1)
                          /\ recorded[k].duration = children[at[k]].duration

\* a measure in which a backup drove the clock below 0, the next note was
\* recorded with the negative onset, and a chord member followed it
C5_Witness ==
    /\ pc = "converted"
    /\ \E m \in DOMAIN scoreData.measures :
          LET notes == scoreData.measures[m].notes
          IN  \E k \in DOMAIN notes :
                 /\ notes[k].time < 0
                 /\ k < Len(notes)
                 /\ notes[k + 1].isChord
                 /\ notes[k + 1].part = notes[k].part

\* the note-on and the note-off the claim asks for a surviving note
C6_On(note) == [time |-> note.startTime, data |-> <<144, note.midiNote, 100>>]

C6_Off(note) == [time |-> note.endTime, data |-> <<128, note.midiNote, 0>>]

\* C6: for each surviving note convertToMIDI emits exactly one note-on
\* [0x90, pitch, 100] at its start, exactly one note-off [0x80, pitch, 0] at its
\* end and exactly one notePair {pitch, start, end}, and nothing else:
\* midiEvents has twice as many entries as notePairs.  (Two surviving notes may
\* ask for the same event, e.g. the same note-off: an event then occurs as often
\* as there are surviving notes asking for it.)
C6_OneOnOneOffOnePair ==
    pc = "converted" =>
        LET S    == Surviving
            ons  == [k \in DOMAIN S |-> C6_On(S[k])]
            offs == [k \in DOMAIN S |-> C6_Off(S[k])]
        IN  /\ Len(notePairs) = Len(S)
            /\ Len(midiEvents) = 2 * Len(notePairs)
            /\ \A k \in DOMAIN S :
                  notePairs[k] = [note  |-> S[k].midiNote,
                                  start |-> S[k].startTime,
                                  end   |-> S[k].endTime]
            /\ \A e \in Range(midiEvents) \cup Range(ons) \cup Range(offs) :
                  Count(midiEvents, e) = Count(ons, e) + Count(offs, e)

\* a conversion with two surviving notes, after one note was dropped as a duplicate
C6_Witness ==
    /\ pc = "converted"
    /\ Len(notePairs) >= 2
    /\ Len(Resolved) > Len(notePairs)

---------------------------------------------------------------------------
(* Claims about the SMF path, checked under SpecMidi.                      *)

\* the events of a written track with their absolute ticks
RECURSIVE AbsoluteFrom(_, _, _)
AbsoluteFrom(events, i, tick) ==
    IF i > Len(events) THEN <<>>
    ELSE <<[tick |-> tick + events[i].delta, kind |-> events[i].kind,
            note |-> events[i].note, vel |-> events[i].vel,
            tempo |-> events[i].tempo]>>
         \o AbsoluteFrom(events, i + 1, tick + events[i].delta)

\* the events of all written tracks, track after track
RECURSIVE WrittenFrom(_, _)
WrittenFrom(tracks, i) ==
    IF i > Len(tracks) THEN <<>>
    ELSE AbsoluteFrom(tracks[i], 1, 0) \o WrittenFrom(tracks, i + 1)

\* the set-tempo events of the file, of all tracks, in file order
WrittenTempos == SelectSeq(WrittenFrom(smf.tracks, 1), LAMBDA e : e.kind = "tempo")

\* the note events of the file, of all tracks, in file order
WrittenNotes == SelectSeq(WrittenFrom(smf.tracks, 1), LAMBDA e : e.kind # "tempo")

\* the tempo in force at tick t: that of the latest set-tempo at a tick <= t (of
\* several at one tick, the last in file order), 500000 when there is none
C7_TempoAt(changes, t) ==
    LET upTo == {i \in DOMAIN changes : changes[i].tick <= t}
    IN  IF upTo = {} THEN 500000
        ELSE changes[CHOOSE i \in upTo :
                        \A j \in upTo : \/ changes[j].tick < changes[i].tick
                                        \/ (changes[j].tick = changes[i].tick /\ j <= i)
                    ].tempo

\* the time of tick t in microseconds: the ticks since the last tempo change
\* before t at the tempo in force there, after the time of that change
RECURSIVE C7_TimeAt(_, _, _)
C7_TimeAt(changes, division, t) ==
    IF t <= 0 THEN 0
    ELSE LET before == {0} \cup {changes[i].tick : i \in {j \in DOMAIN changes :
                                                           changes[j].tick < t}}
             b == CHOOSE x \in before : \A y \in before : y <= x
         IN  C7_TimeAt(changes, division, b)
             + ((t - b) * C7_TempoAt(changes, b)) \div division

\* the latest entry of the tempo map with tick <= t
C7_Entry(t) ==
    LET upTo == {i \in DOMAIN tempoMap : tempoMap[i].tick <= t}
    IN  tempoMap[CHOOSE i \in upTo : \A j \in upTo : j <= i]

\* End-to-end example B: division 480, a set-tempo of 500000 at tick 0, pitch 60
\* with note-on at tick 0 and note-off at tick 480
ExampleBFile ==
    [magic |-> MThd, division |-> 480,
     tracks |-> << << TrackEvent(0, "tempo", 0, 0, 500000),
                      TrackEvent(0, "on", 60, 100, 0),
                      TrackEvent(480, "off", 60, 0, 0) >> >>]

\* C7: parseMidiFile gives each note event the time cumulativeMs(E) + (tick -
\* E.tick) / division * E.tempo / 1000, E being the latest tempo-map entry with
\* tick <= the event's tick; a set-tempo at tick 0 overrides the default 500000
\* for every event and a set-tempo of any track applies to the events of all
\* tracks (the time is that of the tick under the tempo changes of the whole
\* file); example B yields the times 0 and 500 ms.
C7_EventTimes ==
    pc = "midi-parsed" =>
        /\ Len(midiEvents) = Len(WrittenNotes)
        /\ LET changes == WrittenTempos
           IN  \A i \in DOMAIN midiEvents :
                  LET ev == midiEvents[i]
                      E  == C7_Entry(ev.tick)
                  IN  /\ ev.time = E.ms + ((ev.tick - E.tick) * E.tempo) \div smf.division
                      /\ ev.time = C7_TimeAt(changes, smf.division, ev.tick)
        /\ smf = ExampleBFile =>
              midiEvents = << [tick |-> 0, data |-> <<144, 60, 100>>, time |-> 0],
                              [tick |-> 480, data |-> <<128, 60, 0>>, time |-> 500000] >>

\* a file whose second track sets, at tick 0, a tempo other than the default, and
\* whose first track holds a note event after tick 0
C7_Witness ==
    /\ pc = "midi-parsed"
    /\ Len(smf.tracks) = 2
    /\ \E e \in Range(smf.tracks[2]) : e.kind = "tempo" /\ e.tempo # 500000
    /\ \A e \in Range(smf.tracks[1]) : e.kind # "tempo"
    /\ \E i \in DOMAIN midiEvents :
          /\ midiEvents[i].tick > 0
          /\ C7_TempoAt(WrittenTempos, 0) # 500000
          /\ midiEvents[i].time = (midiEvents[i].tick * 250000) \div smf.division

\* C8: the tempo map is sorted by tick and its cumulative time is 0 at the first
\* entry, ms[i] = ms[i-1] + (tick[i] - tick[i-1]) / division * tempo[i-1] / 1000
\* at every later one, and so non-decreasing along the map.
C8_TempoMapCumulative ==
    pc = "midi-parsed" =>
        /\ Len(tempoMap) = 1 + Len(WrittenTempos)
        /\ tempoMap[1].ms = 0
        /\ \A i \in 2..Len(tempoMap) :
              /\ tempoMap[i - 1].tick <= tempoMap[i].tick
              /\ tempoMap[i].ms
                   = tempoMap[i - 1].ms
                     + ((tempoMap[i].tick - tempoMap[i - 1].tick) * tempoMap[i - 1].tempo)
                          \div smf.division
              /\ tempoMap[i - 1].ms <= tempoMap[i].ms

\* a tempo map with two changes after tick 0, the first to another tempo than the
\* default, written in two tracks out of tick order
C8_Witness ==
    /\ pc = "midi-parsed"
    /\ Len(tempoMap) = 3
    /\ tempoMap[2].ms > 0
    /\ tempoMap[3].ms > tempoMap[2].ms
    /\ tempoMap[2].tempo # 500000
    /\ Len(smf.tracks) = 2
    /\ smf.tracks[1] # <<>>
    /\ smf.tracks[1][1].delta > 0
    /\ smf.tracks[2] # <<>>

\* C9: after parseMidiFile, midiEvents is ordered by tick and its times are
\* non-decreasing, whatever the tracks and the tempo changes.
C9_MidiEventsOrdered ==
    pc = "midi-parsed" =>
        \A i \in 1..(Len(midiEvents) - 1) :
            /\ midiEvents[i].tick <= midiEvents[i + 1].tick
            /\ midiEvents[i].time <= midiEvents[i + 1].time

\* two tracks, the first with a note event later than one of the second, and a
\* tempo change between the two events
C9_Witness ==
    /\ pc = "midi-parsed"
    /\ Len(smf.tracks) = 2
    /\ Len(midiEvents) = 2
    /\ Len(tempoMap) = 2
    /\ smf.tracks[1] # <<>>
    /\ smf.tracks[1][1].kind # "tempo"
    /\ smf.tracks[1][1].delta > 0
    /\ midiEvents[1].time < midiEvents[2].time

---------------------------------------------------------------------------
(* The claim about readVar, checked under SpecVlq.                         *)

\* C10: readVar applied to the standard variable-length encoding of n, for
\* 0 <= n < 2^28, returns n and leaves pos just after the encoded bytes.
C10_VlqRoundTrip ==
    pc = "vlq-read" =>
        /\ vlq.n >= 0 /\ vlq.n < VlqLimit
        /\ vlq.v = vlq.n
        /\ vlq.pos = vlq.start + Len(EncodeVar(vlq.n))

\* the greatest number of the claim, written in four bytes, has been read
C10_Witness ==
    /\ pc = "vlq-read"
    /\ vlq.n = VlqLimit - 1
    /\ vlq.pos = vlq.start + 4

---------------------------------------------------------------------------
(* The claim about running status, checked under SpecRunning.             *)

\* the file with the status byte of every message written out
WrittenOut(file) ==
    [file EXCEPT !.tracks =
        [t \in DOMAIN file.tracks |->
            [k \in DOMAIN file.tracks[t] |->
                [file.tracks[t][k] EXCEPT !.running = FALSE]]]]

\* C11: a byte with its high bit clear in status position is read as the first
\* data byte of a message with the previous status byte; so a track whose
\* repeated note messages leave the status byte out decodes to the same (tick,
\* status, data1, data2) note events as the track with every status written out.
C11_RunningStatus ==
    pc = "midi-parsed" =>
        LET full == IF WrittenOut(smf) = smf
                    THEN [midiEvents |-> midiEvents]
                    ELSE parseMidiFile(EncodeFile(WrittenOut(smf)), <<>>, 0)
            written == WrittenNotes
        IN  /\ Len(midiEvents) = Len(written)
            /\ [i \in DOMAIN midiEvents |->
                    <<midiEvents[i].tick, midiEvents[i].data>>]
               = [i \in DOMAIN full.midiEvents |->
                    <<full.midiEvents[i].tick, full.midiEvents[i].data>>]
            /\ \A i \in DOMAIN midiEvents :
                  \E j \in DOMAIN written :
                      /\ midiEvents[i].tick = written[j].tick
                      /\ midiEvents[i].data
                           = <<IF written[j].kind = "on" THEN 144 ELSE 128,
                               written[j].note, written[j].vel>>

\* a parsed track with a note-on and, later and in running status, another
\* note-on of another pitch
C11_Witness ==
    /\ pc = "midi-parsed"
    /\ \E t \in DOMAIN smf.tracks :
          \E k \in DOMAIN smf.tracks[t] :
              /\ smf.tracks[t][k].running
              /\ smf.tracks[t][k].kind = "on"
              /\ smf.tracks[t][k].delta > 0
    /\ \E i \in DOMAIN midiEvents :
          midiEvents[i].data = <<144, 64, 100>> /\ midiEvents[i].tick > 0
    /\ Len(buffer) < Len(EncodeFile(WrittenOut(smf)))

---------------------------------------------------------------------------
(* Further claims about the score path, checked under Spec.                *)

\* C12: the merge is idempotent: the notes that survive it, merged again, give
\* the same midiEvents, notePairs and totalDuration.
C12_MergeIdempotent ==
    pc = "converted" =>
        MergeNotes(Surviving)
          = [midiEvents |-> midiEvents, notePairs |-> notePairs,
             totalDuration |-> totalDuration]

\* a conversion that dropped a duplicate and kept notes at two different starts
C12_Witness ==
    /\ pc = "converted"
    /\ Len(notePairs) < Len(Resolved)
    /\ \E i, j \in DOMAIN notePairs : notePairs[i].start < notePairs[j].start

\* C15: every resolved note of the MusicXML path has start >= 0 and
\* end >= start, for every score the parser accepts, measures with backup
\* directives included.
C15_StartNonNegative ==
    pc = "converted" =>
        /\ \A i \in DOMAIN Resolved :
              Resolved[i].startTime >= 0 /\ Resolved[i].endTime >= Resolved[i].startTime
        /\ \A i \in DOMAIN notePairs :
              notePairs[i].start >= 0 /\ notePairs[i].end >= notePairs[i].start

---------------------------------------------------------------------------
(* Claims about pitches, checked under SpecPitch.                          *)

\* C16: every event and every notePair returned by convertToMIDI carries a
\* pitch that is an integer in 0..127, whatever step, octave and alter the
\* parser accepted.
C16_PitchInRange ==
    pc = "converted" =>
        /\ \A i \in DOMAIN midiEvents : midiEvents[i].data[2] \in 0..127
        /\ \A i \in DOMAIN notePairs : notePairs[i].note \in 0..127

\* the children of a measure but the notes whose <pitch> has no <step>
WithoutSteplessNotes(children) ==
    SelectSeq(children, LAMBDA c : ~(c.tag = "note" /\ c.pitch /\ ~c.hasStep))

\* C17: a note whose pitch lacks its step does not crash the parse: the note is
\* skipped and parseXMLString returns the score with every other note of the
\* document.
C17_MissingStepSkipped ==
    (pc \in {"converted", "parse-failed"} /\ parseXMLStringThrows(doc)) =>
        /\ pc = "converted"
        /\ scoreData
             = parseXMLString(hdr, [p \in DOMAIN doc |->
                                      [m \in DOMAIN doc[p] |->
                                          WithoutSteplessNotes(doc[p][m])]])

---------------------------------------------------------------------------
(* The claim about a wrong header, checked under SpecHeader.               *)

\* C18: when the first 4 bytes of the file are not "MThd", parseMidiFile fails
\* with InvalidHeader: the caller gets a diagnostic signal and no partial result
\* is left (midiEvents and notePairs empty, totalDuration 0).
C18_InvalidHeaderSurfaced ==
    (pc \in {"midi-parsed", "midi-rejected"} /\ smf.magic # MThd) =>
        /\ pc = "midi-rejected"
        /\ logged # <<>>
        /\ midiEvents = <<>>
        /\ notePairs = <<>>
        /\ totalDuration = 0

---------------------------------------------------------------------------
(* The claim about parseZIP, checked under SpecScan.                       *)

\* whether parseZIP gets the member's bytes from inflateRaw
C20_Inflated(chunk) == chunk.method = 8 /\ chunk.sound /\ pako = "loaded"

\* the members of the file, each with its inflated bytes or else its raw bytes
C20_Expected ==
    LET members == SelectSeq(zip, LAMBDA chunk : chunk.kind = "member")
    IN  [i \in DOMAIN members |->
            [name |-> members[i].name,
             data |-> IF C20_Inflated(members[i])
                      THEN members[i].content ELSE members[i].raw]]

\* C20: parseZIP never aborts the scan because of one bad member: a member whose
\* method is not 8, or whose DEFLATE data does not inflate, or for which there
\* is no inflater, is yielded with its raw bytes unchanged, and every later
\* member of the buffer is still found and yielded.
C20_BadMemberKept ==
    pc = "zip-scanned" => files = C20_Expected

\* a scanned file with a DEFLATE member that could not be inflated, followed by
\* a member that was, both yielded
C20_Witness ==
    /\ pc = "zip-scanned"
    /\ Len(zip) = 3
    /\ zip[1].kind = "member" /\ zip[1].method = 8 /\ ~zip[1].sound
    /\ zip[2].kind = "bytes"
    /\ zip[3].kind = "member" /\ C20_Inflated(zip[3])
    /\ Len(files) = 2
    /\ files[1].data = zip[1].raw
    /\ files[2].data = zip[3].content

---------------------------------------------------------------------------
(* Claims on the .mxl path of parseFile.                                   *)

\* the text of the file from its first <?xml on
C13_FromProlog ==
    LET text == decodeText(buffer)
    IN  SubSeq(text, indexOf(text, XmlProlog) + 1, Len(text))

\* the place of the first closing tag of either kind in the text
C13_FirstClose(text) ==
    LET partwise == indexOf(text, endTag)
        timewise == indexOf(text, endTag2)
    IN  IF partwise = 0 - 1 THEN timewise
        ELSE IF timewise = 0 - 1 THEN partwise
        ELSE IF partwise < timewise THEN partwise ELSE timewise

\* the file has no local file header, and holds a prolog and a closing tag
\* after it
C13_Case ==
    /\ pc = "mxl-settled"
    /\ result.state = "resolved"
    /\ files = <<>>
    /\ indexOf(decodeText(buffer), XmlProlog) # 0 - 1
    /\ C13_FirstClose(C13_FromProlog) # 0 - 1

\* C13: for a file without a local file header that holds a <?xml prolog and,
\* after it, a </score-partwise> or a </score-timewise>, the fallback returns
\* the text from the prolog up to and including the first closing tag of
\* either kind, whatever bytes surround it.
C13_FallbackTruncatesAtFirstTag ==
    C13_Case =>
        /\ result.hasText
        /\ result.xmlText = SubSeq(C13_FromProlog, 1,
                                   C13_FirstClose(C13_FromProlog) + Len(endTag))

\* the place among the files of the member that the container's full-path
\* names, 0 when there is no container, no full-path or no such member
C14_Named ==
    LET path == NameByContainerOnly(files)
    IN  IF path.hasText
        THEN FindByName(files, path.text)
        ELSE 0

\* the place of the first .xml member outside META-INF/ and __MACOSX/, 0 when
\* there is none
C14_FirstXml == FindScoreFile(files)

\* the text that parseFile extracted is that of the member at this place
C14_TextOf(place) ==
    /\ result.hasText
    /\ result.xmlText = decodeText(files[place].data)

\* C14: of an archive with members, the text is that of the member that the
\* container's full-path names; when there is no such member it is that of the
\* first .xml member outside META-INF/ and __MACOSX/; the scan of the bytes
\* gives the text only when neither is there.
C14_MemberSelection ==
    (pc = "mxl-settled" /\ result.state = "resolved" /\ files # <<>>) =>
        IF C14_Named # 0 THEN C14_TextOf(C14_Named)
        ELSE IF C14_FirstXml # 0 THEN C14_TextOf(C14_FirstXml)
        ELSE extractMXLFallback(buffer) = [hasText |-> result.hasText,
                                           text    |-> result.xmlText]

\* C19: the promise of parseFile is never rejected: it resolves to a result,
\* also when pako could not be loaded.
C19_ParseFileNeverRejects ==
    pc = "mxl-settled" => result.state = "resolved"

---------------------------------------------------------------------------
(* The claim about the merge on the SMF path, checked under SpecNotes.     *)

\* the notes of a written track in which every note-on is followed by its
\* note-off: start and end in ticks
C21_NotesOfTrack(events) ==
    LET abs == AbsoluteFrom(events, 1, 0)
    IN  { [note |-> abs[i].note, start |-> abs[i].tick, end |-> abs[i + 1].tick] :
            i \in { j \in 1..(Len(abs) - 1) : abs[j].kind = "on" /\ abs[j + 1].kind = "off" } }

\* every track of the file is a sequence of note-on, note-off couples
C21_Coupled ==
    \A t \in DOMAIN smf.tracks :
        /\ Len(smf.tracks[t]) % 2 = 0
        /\ \A i \in DOMAIN smf.tracks[t] :
              smf.tracks[t][i].kind = (IF i % 2 = 1 THEN "on" ELSE "off")

\* the notes of the file
C21_Notes == UNION { C21_NotesOfTrack(smf.tracks[t]) : t \in DOMAIN smf.tracks }

\* the time, in microseconds, of a tick of a file without tempo changes
C21_Time(tick) == C7_TimeAt(<<>>, smf.division, tick)

\* C21: on the SMF path, when two notes of the same pitch start at the same
\* time with different durations, only the longer one is in notePairs and in
\* the event list: the shorter one has no pair, the longer one has, and a
\* single note-on of that pitch is at that time.
C21_SmfNotesMerged ==
    (pc = "midi-parsed" /\ C21_Coupled) =>
        \A a, b \in C21_Notes :
            (a.note = b.note /\ a.start = b.start /\ a.end < b.end) =>
                /\ \A i \in DOMAIN notePairs :
                      ~(/\ notePairs[i].note = a.note
                        /\ notePairs[i].start = C21_Time(a.start)
                        /\ notePairs[i].end = C21_Time(a.end))
                /\ \E i \in DOMAIN notePairs :
                      /\ notePairs[i].note = b.note
                      /\ notePairs[i].start = C21_Time(b.start)
                /\ Cardinality({ i \in DOMAIN midiEvents :
                                   /\ midiEvents[i].data[1] = 144
                                   /\ midiEvents[i].data[2] = a.note
                                   /\ midiEvents[i].data[3] > 0
                                   /\ midiEvents[i].time = C21_Time(a.start) }) = 1

---------------------------------------------------------------------------
(* The claim about back-to-back notes, checked under Spec.                 *)

\* the surviving notes first and second are of one pitch, both sound for some
\* time, none before time 0, and first ends when second starts
C30_BackToBack(first, second) ==
    /\ first.note = second.note
    /\ 0 <= first.start
    /\ first.start < first.end
    /\ second.start < second.end
    /\ first.end = second.start

---------------------------------------------------------------------------
(* The claim about unknown status families, checked under SpecAftertouch.  *)

\* a written track without its aftertouch messages, the delta of each added to
\* that of the message after it: carry is the delta not yet passed on
RECURSIVE C24_Skip(_, _, _)
C24_Skip(events, i, carry) ==
    IF i > Len(events) THEN <<>>
    ELSE IF events[i].kind = "aftertouch"
    THEN C24_Skip(events, i + 1, carry + events[i].delta)
    ELSE <<[events[i] EXCEPT !.delta = @ + carry]>> \o C24_Skip(events, i + 1, 0)

\* a written track up to its first aftertouch message
C24_Stop(events) ==
    LET unknown == { i \in DOMAIN events : events[i].kind = "aftertouch" }
    IN  IF unknown = {} THEN events
        ELSE SubSeq(events, 1, (CHOOSE i \in unknown : \A j \in unknown : i <= j) - 1)

\* the files that a defensive decoder may take the written file for: in each
\* track the aftertouch messages are skipped, or the track ends at the first
C24_Defensive ==
    { [smf EXCEPT !.tracks = [t \in DOMAIN smf.tracks |->
                                 IF t \in stopped THEN C24_Stop(smf.tracks[t])
                                 ELSE C24_Skip(smf.tracks[t], 1, 0)]] :
        stopped \in SUBSET DOMAIN smf.tracks }

\* tick and data of the events of a list
C24_TickAndData(events) ==
    [i \in DOMAIN events |-> <<events[i].tick, events[i].data>>]

\* C24: an event of a status family that parseMidiFile has no branch for is
\* skipped as a whole, the ticks and data of the later events being what they
\* are without it, or it ends the decoding of its track; its data bytes are
\* not read as delta-times or events.
C24_UnknownStatusDefensive ==
    pc = "midi-parsed" =>
        \E file \in C24_Defensive :
            C24_TickAndData(midiEvents)
              = C24_TickAndData(parseMidiFile(EncodeFile(file), <<>>, 0).midiEvents)

---------------------------------------------------------------------------
(* The claim about the scan of parseZIP, checked under SpecTurns.          *)

\* C23: every turn of the loop of parseZIP moves the offset strictly forward,
\* whatever the compressed-size, name-length and extra-length fields hold, so
\* the scan ends.
C23_OffsetMovesForward ==
    [][(pc = "zip-scanning" /\ pc' = "zip-scanning") => scanOffset' > scanOffset]_vars

---------------------------------------------------------------------------
(* The application (src/unnamed/part_000): the file handlers with their    *)
(* awaits, the delayed score render, playback, seeking and learning mode.  *)
(* The files are taken from a catalogue; a handler that awaits leaves a    *)
(* task in tasks, and the task's action is the handler's continuation; the *)
(* pending tasks complete in any order.  Times are microseconds, the clock *)
(* advances by TimeUnit between two frames of playLoop, and playbackRate   *)
(* stays 1.  The messages of log() are not recorded in these runs.         *)

\* the variables that the application runs leave alone
pathVars == <<pc, hdr, doc, smf, buffer, tempoMap, vlq, logged, zip, pako, files,
              result, scanOffset>>

\* file loads of one run
MaxLoads == 2

\* frames of playLoop of one run
MaxFrames == 3

\* the time between two frames of playLoop, in microseconds
TimeUnit == 500000

\* Math.abs(time - targetTime) < 50 of the learning steps, in microseconds
LearnWindow == 50000

\* a score with a rest before its only note: C4 over [500 ms, 1000 ms)
RestFirstDoc ==
    << << << RestNote(1), PitchedNote("C", 4, 0, 1, FALSE) >> >> >>

\* the catalogue: the .mid file of example B, and two MusicXML files
MidiFiles == {"b.mid"}

ScoreFiles == {"a.xml", "r.xml"}

\* the MusicXML file of the library list
LibraryFiles == {"a.xml"}

\* what parseMidiFile makes of a .mid file of the catalogue
MidiOf(file) == parseMidiFile(EncodeFile(ExampleBFile), <<>>, 0)

\* what parseXMLString makes of the text of a MusicXML file of the catalogue
ScoreOf(file) ==
    IF file = "a.xml" THEN parseXMLString(ExampleAHeader, ExampleADoc)
    ELSE parseXMLString(ExampleAHeader, RestFirstDoc)

\* what convertOSMDToMIDI may return for the sheet of a file: OpenSheetMusic-
\* Display is not part of the repository; its sheet either yields no note or
\* the notes of the file
OsmdResults(file) ==
    { [midiEvents |-> <<>>, notePairs |-> <<>>, totalDuration |-> 0],
      convertToMIDI(ScoreOf(file)) }

\* midiEvents.find / findIndex: the first place from `from` on whose event has
\* the property, 0 when there is none
IsNoteOn(ev) == ev.data[1] \div 16 = 9 /\ ev.data[3] > 0

FirstNoteOnFrom(events, from) ==
    FirstPlace({ i \in from..Len(events) : IsNoteOn(events[i]) })

\* firstNoteOn ? firstNoteOn.time : 0
FirstNoteOnTime(events) ==
    IF FirstNoteOnFrom(events, 1) = 0 THEN 0 ELSE events[FirstNoteOnFrom(events, 1)].time

\* the absolute value
Abs(x) == IF x < 0 THEN 0 - x ELSE x

\* the while loops of advanceLearningStep and prepareNextLearningStep: the
\* first place from `from` on whose event is not within the window of
\* targetTime, Len(events) + 1 when there is none
RECURSIVE WindowEnd(_, _, _)
WindowEnd(events, from, targetTime) ==
    IF from <= Len(events) /\ Abs(events[from].time - targetTime) < LearnWindow
    THEN WindowEnd(events, from + 1, targetTime)
    ELSE from

\* prepareNextLearningStep on the globals g = [learningMode, midiEvents,
\* nextEventIndex, currentTargetNotes, currentTimeOffset]; nextEventIndex is
\* 0-based as in the code
prepareNextLearningStep(g) ==
    IF ~g.learningMode \/ g.nextEventIndex >= Len(g.midiEvents) THEN g
    ELSE LET next == FirstNoteOnFrom(g.midiEvents, g.nextEventIndex + 1)
         IN  IF next = 0 THEN [g EXCEPT !.currentTargetNotes = <<>>]
             ELSE LET targetTime == g.midiEvents[next].time
                      first == FirstPlace({ i \in DOMAIN g.midiEvents :
                                              g.midiEvents[i].time = targetTime })
                      last  == WindowEnd(g.midiEvents, first, targetTime) - 1
                      ons   == SelectSeq(SubSeq(g.midiEvents, first, last), IsNoteOn)
                  IN  [g EXCEPT !.nextEventIndex = first - 1,
                                !.currentTargetNotes = [i \in DOMAIN ons |-> ons[i].data[2]],
                                !.currentTimeOffset = targetTime]

\* the globals that the learning steps read and write
Globals ==
    [learningMode |-> learningMode, midiEvents |-> midiEvents,
     nextEventIndex |-> nextEventIndex, currentTargetNotes |-> currentTargetNotes,
     currentTimeOffset |-> currentTimeOffset]

\* advanceLearningStep; it is reached with nextEventIndex < midiEvents.length
advanceLearningStep(g) ==
    LET targetTime == g.midiEvents[g.nextEventIndex + 1].time
    IN  prepareNextLearningStep(
            [g EXCEPT !.nextEventIndex =
                          WindowEnd(g.midiEvents, g.nextEventIndex + 1, targetTime) - 1])

\* the while loop of playLoop at currentTimeOffset t: the 0-based index after
\* the events it dispatches, from the 0-based index `from` on; it stops at the
\* first event whose time is not <= t
DueEndEarly(events, from, t) ==
    LET late == { i \in (from + 1)..Len(events) : events[i].time >= t }
    IN  IF late = {} THEN Len(events) ELSE FirstPlace(late) - 1

DueEnd(events, from, t) ==
    LET late == { i \in (from + 1)..Len(events) : events[i].time > t }
    IN  IF late = {} THEN Len(events) ELSE FirstPlace(late) - 1

\* playLoop while isPlaying, on the event list and the 0-based nextEventIndex
\* `from`, with startTime start and the clock at clock: the new values of
\* currentTimeOffset, nextEventIndex, dispatched and isPlaying
playLoop(events, from, start, clock) ==
    LET offset == clock - start
        last   == DueEnd(events, from, offset)
    IN  [currentTimeOffset |-> offset,
         nextEventIndex    |-> last,
         dispatched        |-> dispatched \o
                               [i \in 1..(last - from) |->
                                   [data |-> events[from + i].data,
                                    at   |-> offset]],
         isPlaying         |-> ~(offset >= totalDuration)]

\* the page with or without the OpenSheetMusicDisplay library
InitApp ==
    /\ pc = "app"
    /\ hdr = NoHeader
    /\ doc = <<>>
    /\ Cleared
    /\ smf = NoFile
    /\ buffer = <<>>
    /\ tempoMap = <<>>
    /\ vlq = NoVlq
    /\ NoLoad
    /\ scanOffset = 0
    /\ now = 0
    /\ playStartTime = 0
    /\ isPlaying = FALSE
    /\ nextEventIndex = 0
    /\ currentTimeOffset = 0
    /\ firstNoteOffset = 0
    /\ learningMode = FALSE
    /\ currentTargetNotes = <<>>
    /\ currentXMLString = "null"
    /\ isRendering = FALSE
    /\ osmdLoaded \in BOOLEAN
    /\ tasks = {}
    /\ dispatched = <<>>
    /\ requested = <<>>

\* clearCurrentFile
ClearCurrentFile ==
    /\ isPlaying' = FALSE
    /\ midiEvents' = <<>>
    /\ notePairs' = <<>>
    /\ nextEventIndex' = 0
    /\ totalDuration' = 0
    /\ currentTimeOffset' = 0
    /\ playStartTime' = 0
    /\ scoreData' = NoScore
    /\ currentXMLString' = "null"
    /\ dispatched' = <<>>

\* a task of the load that is being requested
Task(kind, step, file) ==
    [n |-> Len(requested) + 1, kind |-> kind, step |-> step, file |-> file]

\* the record of a request: the handler, the file, and whether an earlier
\* load was still awaiting its file or its render when the handler was called
Request(kind, file) ==
    [kind |-> kind, file |-> file, overlaps |-> tasks # {}]

\* what the conversion of the file of a request gives on its own
OutputsOf(request) ==
    IF request.kind = "midi" THEN MidiOf(request.file)
    ELSE convertToMIDI(ScoreOf(request.file))


\* parseMidiFile up to its await of file.arrayBuffer()
StartParseMidiFile ==
    /\ pc = "app"
    /\ Len(requested) < MaxLoads
    /\ \E file \in MidiFiles :
          /\ ClearCurrentFile
          /\ tasks' = tasks \cup {Task("midi", "read", file)}
          /\ requested' = Append(requested, Request("midi", file))
    /\ UNCHANGED <<pathVars, now, firstNoteOffset, learningMode,
                 currentTargetNotes, isRendering, osmdLoaded>>

\* parseMidiFile after its await
FinishParseMidiFile ==
    /\ \E t \in tasks :
          /\ t.kind = "midi"
          /\ LET parsed == MidiOf(t.file)
             IN  /\ midiEvents' = parsed.midiEvents
                 /\ notePairs' = parsed.notePairs
                 /\ totalDuration' = parsed.totalDuration
          /\ nextEventIndex' = 0
          /\ tasks' = tasks \ {t}
    /\ UNCHANGED <<pathVars, scoreData, now, playStartTime, isPlaying,
                 currentTimeOffset, firstNoteOffset, learningMode,
                 currentTargetNotes, currentXMLString, isRendering,
                 osmdLoaded, dispatched, requested>>

\* parseXMLFile up to its await of mxlConverter.parseFile(file)
StartParseXMLFile ==
    /\ pc = "app"
    /\ Len(requested) < MaxLoads
    /\ \E file \in ScoreFiles :
          /\ ClearCurrentFile
          /\ tasks' = tasks \cup {Task("xml", "parse", file)}
          /\ requested' = Append(requested, Request("xml", file))
    /\ UNCHANGED <<pathVars, now, firstNoteOffset, learningMode,
                 currentTargetNotes, isRendering, osmdLoaded>>

\* parseXMLFile after its await, the file being well-formed: it sets the
\* timer of the render and converts the score
FinishParseXMLFile ==
    /\ \E t \in tasks :
          /\ t.kind = "xml"
          /\ currentXMLString' = t.file
          /\ scoreData' = ScoreOf(t.file)
          /\ tasks' = (tasks \ {t}) \cup {[t EXCEPT !.kind = "timer", !.step = "wait"]}
          /\ LET conv == convertToMIDI(ScoreOf(t.file))
             IN  /\ midiEvents' = conv.midiEvents
                 /\ notePairs' = conv.notePairs
                 /\ totalDuration' = conv.totalDuration
          /\ nextEventIndex' = 0
          /\ currentTimeOffset' = 0
    /\ UNCHANGED <<pathVars, now, playStartTime, isPlaying, firstNoteOffset,
                 learningMode, currentTargetNotes, isRendering,
                 osmdLoaded, dispatched, requested>>

\* loadLibraryFile(fileUrl, fileName) up to its await of fetch(fileUrl), for
\* a file name that does not end in .mxl
StartLoadLibraryFile ==
    /\ pc = "app"
    /\ Len(requested) < MaxLoads
    /\ \E file \in LibraryFiles :
          /\ tasks' = tasks \cup {Task("library", "fetch", file)}
          /\ requested' = Append(requested, Request("library", file))
    /\ UNCHANGED <<pathVars, scoreData, midiEvents, notePairs, totalDuration,
                 now, playStartTime, isPlaying, nextEventIndex,
                 currentTimeOffset, firstNoteOffset, learningMode,
                 currentTargetNotes, currentXMLString, isRendering,
                 osmdLoaded, dispatched>>

\* loadLibraryFile after fetch, the response being ok: clearCurrentFile, then
\* the await of response.text()
LibraryFetched ==
    /\ \E t \in tasks :
          /\ t.kind = "library" /\ t.step = "fetch"
          /\ ClearCurrentFile
          /\ tasks' = (tasks \ {t}) \cup {[t EXCEPT !.step = "text"]}
    /\ UNCHANGED <<pathVars, now, firstNoteOffset, learningMode,
                 currentTargetNotes, isRendering, osmdLoaded, requested>>

\* the field `success` of what mxlConverter.parseXMLString returns: the
\* function returns the score object itself, which has no such field, or null
ResultSuccess(sd) == FALSE

\* loadLibraryFile after the text of the file arrived: it returns when
\* result.success is not truthy, else it goes on as parseXMLFile does
FinishLoadLibraryFile ==
    /\ \E t \in tasks :
          /\ t.kind = "library" /\ t.step = "text"
          /\ IF ~ResultSuccess(ScoreOf(t.file))
             THEN /\ tasks' = tasks \ {t}
                  /\ UNCHANGED <<currentXMLString, scoreData, midiEvents, notePairs,
                                 totalDuration, nextEventIndex, currentTimeOffset>>
             ELSE /\ currentXMLString' = t.file
                  /\ scoreData' = ScoreOf(t.file)
                  /\ tasks' = (tasks \ {t}) \cup {[t EXCEPT !.kind = "timer", !.step = "wait"]}
                  /\ LET conv == convertToMIDI(ScoreOf(t.file))
                     IN  /\ midiEvents' = conv.midiEvents
                         /\ notePairs' = conv.notePairs
                         /\ totalDuration' = conv.totalDuration
                  /\ nextEventIndex' = 0
                  /\ currentTimeOffset' = 0
    /\ UNCHANGED <<pathVars, now, playStartTime, isPlaying, firstNoteOffset,
                 learningMode, currentTargetNotes, isRendering,
                 osmdLoaded, dispatched, requested>>

\* the timer of a load fires: renderOSMD if there is a text, up to its first
\* await; without the library it renders the fallback score and is done
RenderTimer ==
    /\ \E t \in tasks :
          /\ t.kind = "timer"
          /\ IF currentXMLString # "null" /\ ~isRendering /\ osmdLoaded
             THEN /\ isRendering' = TRUE
                  /\ tasks' = (tasks \ {t}) \cup
                                {[t EXCEPT !.kind = "osmd", !.step = "load",
                                           !.file = currentXMLString]}
             ELSE /\ isRendering' = isRendering
                  /\ tasks' = tasks \ {t}
    /\ UNCHANGED <<pathVars, scoreData, midiEvents, notePairs, totalDuration,
                 now, playStartTime, isPlaying, nextEventIndex,
                 currentTimeOffset, firstNoteOffset, learningMode,
                 currentTargetNotes, currentXMLString, osmdLoaded,
                 dispatched, requested>>

\* renderOSMD after its await of osmd.load(currentXMLString)
OsmdLoad ==
    /\ \E t \in tasks :
          /\ t.kind = "osmd" /\ t.step = "load"
          /\ tasks' = (tasks \ {t}) \cup {[t EXCEPT !.step = "render"]}
    /\ UNCHANGED <<pathVars, scoreData, midiEvents, notePairs, totalDuration,
                 now, playStartTime, isPlaying, nextEventIndex,
                 currentTimeOffset, firstNoteOffset, learningMode,
                 currentTargetNotes, currentXMLString, isRendering,
                 osmdLoaded, dispatched, requested>>

\* renderOSMD after its await of osmd.render(): with scoreData null the log
\* line throws and so does the fallback render of the catch block; else the
\* events of convertOSMDToMIDI, when there are any, replace the globals
OsmdRender ==
    /\ \E t \in tasks :
          /\ t.kind = "osmd" /\ t.step = "render"
          /\ tasks' = tasks \ {t}
          /\ isRendering' = FALSE
          /\ \E osmdResult \in OsmdResults(t.file) :
                IF scoreData # NoScore /\ Len(osmdResult.midiEvents) > 0
                THEN /\ midiEvents' = osmdResult.midiEvents
                     /\ notePairs' = osmdResult.notePairs
                     /\ totalDuration' = osmdResult.totalDuration
                     /\ firstNoteOffset' = FirstNoteOnTime(osmdResult.midiEvents)
                     /\ nextEventIndex' = 0
                     /\ currentTimeOffset' = 0
                ELSE UNCHANGED <<midiEvents, notePairs, totalDuration, firstNoteOffset,
                                 nextEventIndex, currentTimeOffset>>
    /\ UNCHANGED <<pathVars, scoreData, now, playStartTime, isPlaying,
                 learningMode, currentTargetNotes, currentXMLString,
                 osmdLoaded, dispatched, requested>>

\* startPlayback with a list that is not empty, and the playLoop it calls
StartPlayback ==
    /\ pc = "app"
    /\ Len(midiEvents) > 0
    /\ learningMode' = FALSE
    /\ LET offset == IF currentTimeOffset = 0 /\ firstNoteOffset > 0
                     THEN firstNoteOffset ELSE currentTimeOffset
           loop   == playLoop(midiEvents, nextEventIndex, now - offset, now)
       IN  /\ playStartTime' = now - offset
           /\ currentTimeOffset' = loop.currentTimeOffset
           /\ nextEventIndex' = loop.nextEventIndex
           /\ dispatched' = loop.dispatched
           /\ isPlaying' = loop.isPlaying
    /\ UNCHANGED <<pathVars, scoreData, midiEvents, notePairs, totalDuration,
                 now, firstNoteOffset, currentTargetNotes,
                 currentXMLString, isRendering, osmdLoaded, tasks,
                 requested>>

\* pausePlayback from its button, while playing
PausePlayback ==
    /\ pc = "app"
    /\ isPlaying
    /\ isPlaying' = FALSE
    /\ UNCHANGED <<pathVars, scoreData, midiEvents, notePairs, totalDuration,
                 now, playStartTime, nextEventIndex, currentTimeOffset,
                 firstNoteOffset, learningMode, currentTargetNotes,
                 currentXMLString, isRendering, osmdLoaded, tasks,
                 dispatched, requested>>

\* a frame of playLoop while playing, TimeUnit after the last one
PlayLoop ==
    /\ pc = "app"
    /\ isPlaying
    /\ now < MaxFrames * TimeUnit
    /\ now' = now + TimeUnit
    /\ LET loop == playLoop(midiEvents, nextEventIndex, playStartTime, now')
       IN  /\ currentTimeOffset' = loop.currentTimeOffset
           /\ nextEventIndex' = loop.nextEventIndex
           /\ dispatched' = loop.dispatched
           /\ isPlaying' = loop.isPlaying
    /\ UNCHANGED <<pathVars, scoreData, midiEvents, notePairs, totalDuration,
                 playStartTime, firstNoteOffset, learningMode,
                 currentTargetNotes, currentXMLString, isRendering,
                 osmdLoaded, tasks, requested>>

\* the positions of the playbar that seek is called with
SeekTargets == {0, 3 * TimeUnit}

\* seek(val)
Seek ==
    /\ pc = "app"
    /\ \E val \in SeekTargets :
          LET found == FirstPlace({ i \in DOMAIN midiEvents : midiEvents[i].time >= val })
              index == IF found = 0 THEN 0 ELSE found - 1
              g     == prepareNextLearningStep(
                         [Globals EXCEPT !.currentTimeOffset = val,
                                         !.nextEventIndex = index])
          IN  /\ currentTimeOffset' = g.currentTimeOffset
              /\ nextEventIndex' = g.nextEventIndex
              /\ currentTargetNotes' = g.currentTargetNotes
              /\ playStartTime' = IF isPlaying THEN now - val ELSE playStartTime
              /\ dispatched' = <<>>
    /\ UNCHANGED <<pathVars, scoreData, midiEvents, notePairs, totalDuration,
                 now, isPlaying, firstNoteOffset, learningMode,
                 currentXMLString, isRendering, osmdLoaded, tasks,
                 requested>>

\* toggleLearningMode from its button
ToggleLearningMode ==
    /\ pc = "app"
    /\ learningMode' = ~learningMode
    /\ IF ~learningMode
       THEN LET g == prepareNextLearningStep([Globals EXCEPT !.learningMode = TRUE])
            IN  /\ isPlaying' = FALSE
                /\ nextEventIndex' = g.nextEventIndex
                /\ currentTargetNotes' = g.currentTargetNotes
                /\ currentTimeOffset' = g.currentTimeOffset
       ELSE UNCHANGED <<isPlaying, nextEventIndex, currentTargetNotes, currentTimeOffset>>
    /\ UNCHANGED <<pathVars, scoreData, midiEvents, notePairs, totalDuration,
                 now, playStartTime, firstNoteOffset, currentXMLString,
                 isRendering, osmdLoaded, tasks, dispatched, requested>>

\* the notes of the incoming messages
IncomingNotes == {60, 64}

\* handleIncomingMidi in learning mode, for a note-on with velocity > 0; when
\* the last target is played with nextEventIndex past the list,
\* advanceLearningStep throws on midiEvents[nextEventIndex].time and the
\* handler ends there
HandleIncomingMidi ==
    /\ pc = "app"
    /\ learningMode
    /\ \E note \in IncomingNotes :
          LET idx  == FirstPlace({ i \in DOMAIN currentTargetNotes :
                                     currentTargetNotes[i] = note })
              left == [i \in 1..(Len(currentTargetNotes) - 1) |->
                          IF i < idx THEN currentTargetNotes[i]
                          ELSE currentTargetNotes[i + 1]]
          IN  /\ idx # 0
              /\ IF left = <<>> /\ nextEventIndex < Len(midiEvents)
                 THEN LET g == advanceLearningStep(
                                   [Globals EXCEPT !.currentTargetNotes = left])
                      IN  /\ nextEventIndex' = g.nextEventIndex
                          /\ currentTargetNotes' = g.currentTargetNotes
                          /\ currentTimeOffset' = g.currentTimeOffset
                 ELSE /\ currentTargetNotes' = left
                      /\ UNCHANGED <<nextEventIndex, currentTimeOffset>>
    /\ UNCHANGED <<pathVars, scoreData, midiEvents, notePairs, totalDuration,
                 now, playStartTime, isPlaying, firstNoteOffset,
                 learningMode, currentXMLString, isRendering, osmdLoaded,
                 tasks, dispatched, requested>>


\* a page without the OpenSheetMusicDisplay library
InitPlay == InitApp /\ ~osmdLoaded

\* file loads one at a time, and playback without seeking or learning mode
NextPlay ==
    \/ (tasks = {} /\ StartParseMidiFile) \/ FinishParseMidiFile
    \/ (tasks = {} /\ StartParseXMLFile) \/ FinishParseXMLFile
    \/ RenderTimer
    \/ StartPlayback \/ PausePlayback \/ PlayLoop

SpecPlay == InitPlay /\ [][NextPlay]_vars

\* the file handlers, the render, playback and seeking
NextApp ==
    \/ StartParseMidiFile \/ FinishParseMidiFile
    \/ StartParseXMLFile \/ FinishParseXMLFile
    \/ StartLoadLibraryFile \/ LibraryFetched \/ FinishLoadLibraryFile
    \/ RenderTimer \/ OsmdLoad \/ OsmdRender
    \/ StartPlayback \/ PausePlayback \/ PlayLoop
    \/ Seek

SpecApp == InitApp /\ [][NextApp]_vars

\* learning mode on a page without the OpenSheetMusicDisplay library: the
\* file handlers, seeking, playback and the incoming notes
NextLearn ==
    \/ StartParseMidiFile \/ FinishParseMidiFile
    \/ StartParseXMLFile \/ FinishParseXMLFile
    \/ RenderTimer
    \/ StartPlayback \/ PlayLoop
    \/ Seek \/ ToggleLearningMode \/ HandleIncomingMidi

SpecLearn == InitPlay /\ [][NextLearn]_vars

---------------------------------------------------------------------------
(* The claims about the application, checked under SpecApp.                *)

\* C27: loadLibraryFile, for a library file whose name does not end in .mxl
\* and whose content is well-formed MusicXML, ends with scoreData the parsed
\* score and midiEvents, notePairs and totalDuration those of convertToMIDI of
\* that score, as parseXMLFile does (stated for a library load that is the
\* only load requested, once its handler has ended).
C27_LibraryLoadAsParseXMLFile ==
    ( /\ Len(requested) = 1
      /\ requested[1].kind = "library"
      /\ tasks = {} )
    => LET sd   == ScoreOf(requested[1].file)
           conv == convertToMIDI(sd)
       IN  /\ scoreData = sd
           /\ midiEvents = conv.midiEvents
           /\ notePairs = conv.notePairs
           /\ totalDuration = conv.totalDuration

\* C22: when a second load starts while an earlier one is still awaiting its
\* file or its render, then once both have finished midiEvents, notePairs and
\* totalDuration are those of the most recently requested file.
C22_LastRequestedWins ==
    ( /\ Len(requested) >= 2
      /\ Last(requested).overlaps
      /\ tasks = {} )
    => LET out == OutputsOf(Last(requested))
       IN  /\ midiEvents = out.midiEvents
           /\ notePairs = out.notePairs
           /\ totalDuration = out.totalDuration

\* C28: after clearCurrentFile and a completed load of a file, playback
\* started from the beginning begins at currentTimeOffset 0 or at the first
\* note-on time of the new file's events, never at the firstNoteOffset of a
\* file loaded before (stated for loads that do not overlap one another).
C28_StartsAtOwnOffset ==
    [][( /\ StartPlayback
         /\ currentTimeOffset = 0
         /\ \A i \in DOMAIN requested : ~requested[i].overlaps )
       => currentTimeOffset' \in {0, FirstNoteOnTime(midiEvents)}]_vars

\* C26: while isPlaying is true, midiEvents is not replaced and nextEventIndex
\* and currentTimeOffset are not changed by anything other than playLoop
\* (called by startPlayback or by a frame) or seek; in particular not by the
\* completion of the render that a load scheduled (stated for loads that do
\* not overlap one another).
C26_NoSwapWhilePlaying ==
    [][( /\ isPlaying /\ isPlaying'
         /\ ~(StartPlayback \/ PlayLoop \/ Seek)
         /\ \A i \in DOMAIN requested : ~requested[i].overlaps )
       => /\ midiEvents' = midiEvents
          /\ nextEventIndex' = nextEventIndex
          /\ currentTimeOffset' = currentTimeOffset]_vars

---------------------------------------------------------------------------
(* The claim about learning mode, checked under SpecLearn.                 *)

\* C29: whenever currentTargetNotes is not empty in learning mode,
\* nextEventIndex < midiEvents.length, so that advanceLearningStep does not
\* read midiEvents[nextEventIndex] past the end of the list; after any
\* sequence of file loads, seeks and incoming notes.
C29_TargetsWithinList ==
    (learningMode /\ currentTargetNotes # <<>>) => nextEventIndex < Len(midiEvents)

---------------------------------------------------------------------------
(* The claim about playback, checked under SpecPlay.                       *)

=============================================================================
